---- MODULE Spec2Model ----
(***************************************************************************)
(* A model of eazysvn (src/eazysvn.py): the revision normalizer revs(),    *)
(* the path resolvers determinebranch() and determinetag(), the branch     *)
(* point finder branchpoints() and the sub-commands built on them.         *)
(*                                                                         *)
(* Python strings are modelled as sequences of atoms.  For revision tokens *)
(* an atom is one character; for URLs an atom is either the separator "/"  *)
(* or a '/'-free path segment.  Python values that may be an int or a str  *)
(* are tagged: [int |-> n] or [str |-> s].                                 *)
(***************************************************************************)
EXTENDS Integers, Sequences, FiniteSets, TLC

VARIABLES call, ret, ran

vars == <<call, ret, ran>>

---------------------------------------------------------------------------
(* Bounds of the model.                                                    *)

\* longest numeral (in digits) of a revision token
MaxDigits == 2

\* largest digit used in the numerals of the revision tokens
MaxDigit == 3

\* longest path of a working-copy URL under the repository root, in segments
MaxSegs == 4

\* most log entries of a branch history
MaxLog == 3

\* largest revision number of a branch history
MaxRev == 12

---------------------------------------------------------------------------
(* Python values and outcomes.                                             *)

IntV(n) == [int |-> n]

StrV(s) == [str |-> s]

IsInt(v) == DOMAIN v = {"int"}

IsStr(v) == DOMAIN v = {"str"}

Return(v) == [kind |-> "return", value |-> v]

Raise(exc, msg) == [kind |-> "raise", value |-> <<exc, msg>>]

\* a strict comparison in place of >=
PyGT(a, b) ==
    IF IsInt(a) /\ IsInt(b) THEN a.int > b.int
    ELSE IF IsInt(a) /\ IsStr(b) THEN FALSE
    ELSE IF IsStr(a) /\ IsInt(b) THEN TRUE
    ELSE FALSE

\* Python 2 ordering, a >= b: numbers order by value, and an int is smaller
\* than any str (CPython 2 orders mismatched types with numbers first).
PyGE(a, b) ==
    IF IsInt(a) /\ IsInt(b) THEN a.int >= b.int
    ELSE IF IsInt(a) /\ IsStr(b) THEN FALSE
    ELSE IF IsStr(a) /\ IsInt(b) THEN TRUE
    ELSE a = b

---------------------------------------------------------------------------
(* String helpers.                                                         *)

DigitChars == <<"0", "1", "2", "3", "4", "5", "6", "7", "8", "9">>

IsDigit(c) == \E i \in 1..Len(DigitChars) : DigitChars[i] = c

DigitVal(c) == (CHOOSE i \in 1..Len(DigitChars) : DigitChars[i] = c) - 1

HEAD == <<"H", "E", "A", "D">>

startswith(s, c) == Len(s) > 0 /\ s[1] = c

contains(s, c) == \E i \in 1..Len(s) : s[i] = c

\* s.split(sep): the pieces of s between the occurrences of sep.
RECURSIVE split(_, _)
split(s, sep) ==
    IF ~contains(s, sep) THEN <<s>>
    ELSE LET i == CHOOSE k \in 1..Len(s) :
                      s[k] = sep /\ \A j \in 1..(k - 1) : s[j] # sep
         IN  <<SubSeq(s, 1, i - 1)>> \o split(SubSeq(s, i + 1, Len(s)), sep)

\* sep.join(chunks)
RECURSIVE join(_, _)
join(chunks, sep) ==
    IF Len(chunks) = 0 THEN <<>>
    ELSE IF Len(chunks) = 1 THEN chunks[1]
    ELSE chunks[1] \o <<sep>> \o join(Tail(chunks), sep)

\* int(s) succeeds on a non-empty string of decimal digits.
IsIntLiteral(s) == Len(s) > 0 /\ \A i \in 1..Len(s) : IsDigit(s[i])

RECURSIVE int(_)
int(s) ==
    IF Len(s) = 0 THEN 0
    ELSE 10 * int(SubSeq(s, 1, Len(s) - 1)) + DigitVal(s[Len(s)])

InvalidLiteral(s) == Raise("ValueError", <<"invalid literal for int()", s>>)

Unpack == Raise("ValueError", <<"unpack">>)

\* str(n), what '%s' % n prints for an int
RECURSIVE str(_)
str(n) ==
    IF n < 0 THEN <<"-">> \o str(0 - n)
    ELSE IF n < 10 THEN <<DigitChars[n + 1]>>
    ELSE str(n \div 10) \o <<DigitChars[(n % 10) + 1]>>

---------------------------------------------------------------------------
(* revs(rev): src/eazysvn.py lines 74-91.                                  *)

\* the range end left as the text that was typed
EndRevText(s) == StrV(s)

\* endrev of a range: 'HEAD' stays a str, anything else goes through int().
EndRev(s) == IF s = HEAD THEN StrV(HEAD) ELSE IntV(int(s))

EndRevOk(s) == s = HEAD \/ IsIntLiteral(s)

\* the '-' branch without the decrement of the start revision
revsHyphenNoDecrement(rev) ==
    LET parts == split(rev, "-") IN
    IF Len(parts) # 2 THEN Unpack
    ELSE IF ~IsIntLiteral(parts[1]) THEN InvalidLiteral(parts[1])
    ELSE IF ~EndRevOk(parts[2]) THEN InvalidLiteral(parts[2])
    ELSE LET begin == IntV(int(parts[1]))
             endrev == EndRev(parts[2])
         IN  IF PyGE(begin, endrev)
             THEN Raise("ValueError", <<"empty range", IntV(begin.int + 1), endrev>>)
             ELSE Return(<<begin, endrev>>)

\* the '-' branch, lines 77-82
revsHyphen(rev) ==
    LET parts == split(rev, "-") IN
    IF Len(parts) # 2 THEN Unpack
    ELSE IF ~IsIntLiteral(parts[1]) THEN InvalidLiteral(parts[1])
    ELSE IF ~EndRevOk(parts[2]) THEN InvalidLiteral(parts[2])
    ELSE LET begin == IntV(int(parts[1]) - 1)
             endrev == EndRev(parts[2])
         IN  IF PyGE(begin, endrev)
             THEN Raise("ValueError", <<"empty range", IntV(begin.int + 1), endrev>>)
             ELSE Return(<<begin, endrev>>)

\* the ':' branch treated like the '-' branch (decrement, empty-range check)
revsColonLikeHyphen(rev) ==
    LET parts == split(rev, ":") IN
    IF Len(parts) # 2 THEN Unpack
    ELSE IF ~IsIntLiteral(parts[1]) THEN InvalidLiteral(parts[1])
    ELSE IF ~EndRevOk(parts[2]) THEN InvalidLiteral(parts[2])
    ELSE LET begin == IntV(int(parts[1]) - 1)
             endrev == EndRev(parts[2])
         IN  IF PyGE(begin, endrev)
             THEN Raise("ValueError", <<"empty range", IntV(begin.int + 1), endrev>>)
             ELSE Return(<<begin, endrev>>)

\* the ':' branch, lines 84-87
revsColon(rev) ==
    LET parts == split(rev, ":") IN
    IF Len(parts) # 2 THEN Unpack
    ELSE IF ~IsIntLiteral(parts[1]) THEN InvalidLiteral(parts[1])
    ELSE IF ~EndRevOk(parts[2]) THEN InvalidLiteral(parts[2])
    ELSE Return(<<IntV(int(parts[1])), EndRev(parts[2])>>)

\* the bare number without the decrement
revsBareNoDecrement(rev) ==
    IF ~IsIntLiteral(rev) THEN InvalidLiteral(rev)
    ELSE Return(<<IntV(int(rev)), StrV(rev)>>)

\* the bare number, lines 89-90: endrev is the token itself, a str
revsBare(rev) ==
    IF ~IsIntLiteral(rev) THEN InvalidLiteral(rev)
    ELSE Return(<<IntV(int(rev) - 1), StrV(rev)>>)

\* a leading 'r' is kept
striprKeep(rev) == rev

\* lines 74-75
stripr(rev) == IF startswith(rev, "r") THEN Tail(rev) ELSE rev

revs(rev0) ==
    LET rev == stripr(rev0) IN
    IF contains(rev, "-") THEN revsHyphen(rev)
    ELSE IF contains(rev, ":") THEN revsColon(rev)
    ELSE revsBare(rev)

---------------------------------------------------------------------------
(* The revision tokens given to revs.                                      *)

InDigits == {DigitChars[i] : i \in 1..(MaxDigit + 1)}

Numerals ==
    UNION {[1..n -> InDigits] : n \in 1..MaxDigits}

EndTokens == Numerals \cup {HEAD}

BareTokens == Numerals

HyphenTokens == {a \o <<"-">> \o b : a \in Numerals, b \in EndTokens}

ColonTokens == {a \o <<":">> \o b : a \in Numerals, b \in EndTokens}

\* the accepted forms that do not start with 'r'
PlainTokens == BareTokens \cup HyphenTokens \cup ColonTokens

\* tokens outside the accepted forms
OddTokens ==
    { <<>>, <<"r">>, HEAD, <<"A", "L", "L">>, <<"r", "r", "1">>,
      <<"1", "-">>, <<"-", "1">>, <<"1", "-", "2", "-", "3">>,
      <<"1", ":">>, <<":", "1">>, <<"1", ":", "2", ":", "3">>,
      <<"2", "-", "1", ":", "3">>, <<"1", "-", "H">> }

Tokens == PlainTokens \cup {<<"r">> \o t : t \in PlainTokens} \cup OddTokens

---------------------------------------------------------------------------
(* svn info output: a sequence of lines, each line a string whose first    *)
(* atom is its first five characters (what line[5:] cuts off).             *)

\* currentbranch, and the head of determinebranch: lines 228-232
urlofinfo(lines) ==
    IF Len(lines) < 2 THEN Raise("IndexError", <<"list index out of range">>)
    ELSE IF startswith(lines[2], "URL: ") THEN Return(Tail(lines[2]))
    ELSE IF Len(lines) < 3 THEN Raise("IndexError", <<"list index out of range">>)
    ELSE Return(Tail(lines[3]))

---------------------------------------------------------------------------
(* determinebranch(branch, path): src/eazysvn.py lines 228-259.            *)

Markers == {<<"branch">>, <<"branches">>, <<"tag">>, <<"tags">>}

TagMarkers == {<<"tag">>, <<"tags">>}

trunk == <<"trunk">>

\* line 237
istag(branch) == contains(branch, "/")

\* a marker consumes nothing after it
consumesNone(ch) == 0

\* line 241-242: a marker segment pops the segment after it as well
consumes(ch) == IF ch \in Markers THEN 1 ELSE 0

\* the marker found is always kept as the container
emitKeepMarker(ch, branch) ==
    IF ch \in Markers THEN
        IF branch = trunk THEN <<branch>>
        ELSE (IF ~istag(branch) THEN <<ch>> ELSE <<>>) \o <<branch>>
    ELSE IF ch = trunk /\ branch # trunk THEN
        (IF ~istag(branch) THEN <<ch>> ELSE <<>>) \o <<branch>>
    ELSE <<ch>>

\* lines 241-257: the chunks appended to new_chunks for the segment ch
emit(ch, branch) ==
    IF ch \in Markers THEN
        IF branch = trunk THEN <<branch>>
        ELSE (IF ~istag(branch)
              THEN (IF ch \in TagMarkers THEN <<<<"branches">>>> ELSE <<ch>>)
              ELSE <<>>) \o <<branch>>
    ELSE IF ch = trunk /\ branch # trunk THEN
        (IF ~istag(branch) THEN <<<<"branches">>>> ELSE <<>>) \o <<branch>>
    ELSE <<ch>>

\* lines 239-257: the scan, chunks in URL order, new_chunks so far
RECURSIVE scan(_, _, _)
scan(chunks, new_chunks, branch) ==
    IF Len(chunks) = 0 THEN Return(new_chunks)
    ELSE LET ch == Head(chunks)
             rest == Tail(chunks)
         IN  IF Len(rest) < consumes(ch)
             THEN Raise("IndexError", <<"pop from empty list">>)
             ELSE scan(SubSeq(rest, consumes(ch) + 1, Len(rest)),
                       new_chunks \o emit(ch, branch), branch)

Reverse(q) == [i \in 1..Len(q) |-> q[Len(q) + 1 - i]]

\* the scan without chunks.reverse(): pop() then takes the last chunk first
rewriteNoReverse(branch, url) ==
    LET r == scan(Reverse(split(url, "/")), <<>>, branch) IN
    IF r.kind = "raise" THEN r ELSE Return(join(r.value, "/"))

\* lines 234-259 on the URL string
rewrite(branch, url) ==
    LET r == scan(split(url, "/"), <<>>, branch) IN
    IF r.kind = "raise" THEN r ELSE Return(join(r.value, "/"))

determinebranch(branch, info) ==
    LET u == urlofinfo(info) IN
    IF u.kind = "raise" THEN u ELSE rewrite(branch, u.value)

---------------------------------------------------------------------------
(* determinetag(tagname, path): src/eazysvn.py lines 297-323.              *)

\* every marker and trunk gets the container 'tags'
emittagPlural(ch, tagname) ==
    IF ch \in Markers \cup {trunk} THEN << <<"tags">>, tagname >>
    ELSE <<ch>>

\* lines 309-321: the chunks appended to new_chunks for the segment ch
emittag(ch, tagname) ==
    IF ch \in {<<"branches">>, <<"tags">>} THEN << <<"tags">>, tagname >>
    ELSE IF ch \in {<<"branch">>, <<"tag">>} THEN << <<"tag">>, tagname >>
    ELSE IF ch = trunk THEN << <<"tags">>, tagname >>
    ELSE <<ch>>

\* lines 307-321: the scan, chunks in URL order, new_chunks so far; the
\* marker branches pop the next chunk (lines 310, 314)
RECURSIVE tagscan(_, _, _)
tagscan(chunks, new_chunks, tagname) ==
    IF Len(chunks) = 0 THEN Return(new_chunks)
    ELSE LET ch == Head(chunks)
             rest == Tail(chunks)
         IN  IF ch \in Markers /\ Len(rest) = 0
             THEN Raise("IndexError", <<"pop from empty list">>)
             ELSE tagscan(IF ch \in Markers THEN Tail(rest) ELSE rest,
                          new_chunks \o emittag(ch, tagname), tagname)

\* lines 303-323 on the URL string
retag(tagname, url) ==
    LET r == tagscan(split(url, "/"), <<>>, tagname) IN
    IF r.kind = "raise" THEN r ELSE Return(join(r.value, "/"))

determinetag(tagname, info) ==
    LET u == urlofinfo(info) IN
    IF u.kind = "raise" THEN u ELSE retag(tagname, u.value)

---------------------------------------------------------------------------
(* branchpoints(branch): src/eazysvn.py lines 463-471.  The text printed   *)
(* by 'svn log --xml' is a sequence of atoms: a tag, or one character of   *)
(* an attribute value.                                                     *)

XmlDecl == "<?xml version=\"1.0\"?>"

\* the text of one <logentry revision="..."> element
EntryText(revision) ==
    <<"<logentry revision=\"">> \o revision \o <<"\">", "</logentry>">>

RECURSIVE EntriesText(_)
EntriesText(revisions) ==
    IF Len(revisions) = 0 THEN <<>>
    ELSE EntryText(str(Head(revisions))) \o EntriesText(Tail(revisions))

\* the log svn prints for a history with the given revisions
LogText(revisions) ==
    <<XmlDecl, "<log>">> \o EntriesText(revisions) \o <<"</log>">>

NotWellFormed == [ok |-> FALSE, logentry |-> <<>>]

\* the content of <log>: logentry elements up to the closing tag, with
\* nothing after it
RECURSIVE parseEntries(_)
parseEntries(s) ==
    IF Len(s) = 0 THEN NotWellFormed
    ELSE IF Head(s) = "</log>" THEN
        IF Len(s) = 1 THEN [ok |-> TRUE, logentry |-> <<>>]
        ELSE NotWellFormed
    ELSE IF Head(s) = "<logentry revision=\"" /\ contains(s, "\">") THEN
        LET k == CHOOSE i \in 1..Len(s) :
                     s[i] = "\">" /\ \A j \in 1..(i - 1) : s[j] # "\">"
        IN  IF k + 1 > Len(s) \/ s[k + 1] # "</logentry>" THEN NotWellFormed
            ELSE LET rest == parseEntries(SubSeq(s, k + 2, Len(s))) IN
                 IF ~rest.ok THEN rest
                 ELSE [ok |-> TRUE,
                       logentry |-> <<SubSeq(s, 2, k - 1)>> \o rest.logentry]
    ELSE NotWellFormed

\* line 465, minidom.parseString and getElementsByTagName('logentry'): the
\* revision attributes of the entries in document order, or a parse error
parseString(xml) ==
    LET body == IF startswith(xml, XmlDecl) THEN Tail(xml) ELSE xml IN
    IF startswith(body, "<log>") THEN parseEntries(Tail(body))
    ELSE NotWellFormed

\* the exit message without the text that could not be parsed
CouldNotParseQuiet(xml) ==
    Raise("SystemExit", <<"Could not parse svn log output:\n\n">>)

\* lines 466-467
CouldNotParse(xml) ==
    Raise("SystemExit", <<"Could not parse svn log output:\n\n">> \o xml)

\* the first entry taken for the oldest one
branchpointsFirstOnly(xml) ==
    LET dom == parseString(xml) IN
    IF ~dom.ok THEN CouldNotParse(xml)
    ELSE IF Len(dom.logentry) = 0
    THEN Raise("IndexError", <<"list index out of range">>)
    ELSE Return(<<IntV(int(dom.logentry[1])), IntV(int(dom.logentry[1]))>>)

\* a log without entries taken for one that could not be parsed
branchpointsEmptyUnparsable(xml) ==
    LET dom == parseString(xml) IN
    IF ~dom.ok \/ Len(dom.logentry) = 0 THEN CouldNotParse(xml)
    ELSE Return(<<IntV(int(dom.logentry[Len(dom.logentry)])),
                  IntV(int(dom.logentry[1]))>>)

\* lines 463-471, on the text returned by svnlog(branch)
branchpoints(xml) ==
    LET dom == parseString(xml) IN
    IF ~dom.ok THEN CouldNotParse(xml)
    ELSE IF Len(dom.logentry) = 0
    THEN Raise("IndexError", <<"list index out of range">>)
    ELSE Return(<<IntV(int(dom.logentry[Len(dom.logentry)])),
                  IntV(int(dom.logentry[1]))>>)

---------------------------------------------------------------------------
(* listbranches(path) and listtags(path): src/eazysvn.py lines 358-374 and *)
(* 409-425, up to the URL handed to svnls.                                 *)

\* the container 'branches' whatever the segment found
RECURSIVE branchcontainerPlural(_)
branchcontainerPlural(chunks) ==
    IF Len(chunks) = 0 THEN <<>>
    ELSE LET ch == chunks[Len(chunks)]
             rest == SubSeq(chunks, 1, Len(chunks) - 1)
         IN  IF ch \in Markers \cup {trunk}
             THEN rest \o << <<"branches">> >>
             ELSE branchcontainerPlural(rest)

\* lines 360-367: chunks popped from the end until a marker or trunk
RECURSIVE branchcontainer(_)
branchcontainer(chunks) ==
    IF Len(chunks) = 0 THEN <<>>
    ELSE LET ch == chunks[Len(chunks)]
             rest == SubSeq(chunks, 1, Len(chunks) - 1)
         IN  IF ch \in {<<"tag">>, <<"branch">>}
             THEN rest \o << <<"branch">> >>
             ELSE IF ch \in {<<"tags">>, <<"branches">>, trunk}
             THEN rest \o << <<"branches">> >>
             ELSE branchcontainer(rest)

\* lines 411-418
RECURSIVE tagcontainer(_)
tagcontainer(chunks) ==
    IF Len(chunks) = 0 THEN <<>>
    ELSE LET ch == chunks[Len(chunks)]
             rest == SubSeq(chunks, 1, Len(chunks) - 1)
         IN  IF ch \in {trunk, <<"branches">>, <<"tags">>}
             THEN rest \o << <<"tags">> >>
             ELSE IF ch \in {<<"branch">>, <<"tag">>}
             THEN rest \o << <<"tag">> >>
             ELSE tagcontainer(rest)

\* every line of the listing kept, files included
dirsAll(lines) == lines

\* lines 368-373 and 419-424: the lines of the svn ls output that end with
\* '/', without that '/'
RECURSIVE dirs(_)
dirs(lines) ==
    IF Len(lines) = 0 THEN <<>>
    ELSE LET line == Head(lines) IN
         (IF Len(line) > 0 /\ line[Len(line)] = "/"
          THEN <<SubSeq(line, 1, Len(line) - 1)>> ELSE <<>>)
             \o dirs(Tail(lines))

---------------------------------------------------------------------------
(* External commands.  A command line is a string: words and the atoms of  *)
(* revisions and URLs, " " between the arguments.                          *)

\* subprocess.Popen(argv): a query whose output the program reads
Popen(argv) == [via |-> "Popen", cmd |-> join(argv, " ")]

\* os.system(cmd): a command run through the shell
System(cmd) == [via |-> "system", cmd |-> cmd]

\* lines 94-99
svninfo(path) == Popen(<< <<"svn">>, <<"info">>, path >>)

\* lines 102-107
svnls(url) == Popen(<< <<"svn">>, <<"ls">>, url >>)

\* lines 110-116
svnlog(url) ==
    Popen(<< <<"svn">>, <<"log">>, <<"--non-interactive">>,
             <<"--stop-on-copy">>, <<"--xml">>, url >>)

\* lines 358-374, given the output of svn info and of svn ls: the list
\* returned and the queries made
listbranches(path, info, ls) ==
    LET url == urlofinfo(info) IN
    IF url.kind = "raise" THEN [ret |-> url, ran |-> <<svninfo(path)>>]
    ELSE LET chunks == branchcontainer(split(url.value, "/")) IN
         [ret |-> Return(dirs(ls)),
          ran |-> <<svninfo(path), svnls(join(chunks, "/"))>>]

\* lines 409-425
listtags(path, info, ls) ==
    LET url == urlofinfo(info) IN
    IF url.kind = "raise" THEN [ret |-> url, ran |-> <<svninfo(path)>>]
    ELSE LET chunks == tagcontainer(split(url.value, "/")) IN
         [ret |-> Return(dirs(ls)),
          ran |-> <<svninfo(path), svnls(join(chunks, "/"))>>]

\* '%s' % v for a revision: an int or a str
fmt(v) == IF IsInt(v) THEN str(v.int) ELSE v.str

\* the range with its ends exchanged
rangeSwapped(a, b) == fmt(b) \o <<":">> \o fmt(a)

\* '%s:%s' % (a, b)
range(a, b) == fmt(a) \o <<":">> \o fmt(b)

\* cmd += " -m '%s'" % opts.message, when a message is given
withmessage(cmd, message) ==
    IF Len(message) = 0 THEN cmd
    ELSE cmd \o <<" ", "-m", " ", "'">> \o message \o <<"'">>

---------------------------------------------------------------------------
(* The sub-commands.  A handler is given the parsed options and positional *)
(* arguments (the result of parser.parse_args) and the replies of svn to   *)
(* the queries it makes; its result is its outcome and the external        *)
(* commands it ran, in order.  What it prints is not modelled.             *)

\* an option that was not given: None, false like the empty string
None == <<>>

ALL == <<"A", "L", "L">>

dot == <<".">>

Out(r, cmds) == [ret |-> r, ran |-> cmds]

\* parser.error(msg): usage on stderr and exit status 2
UsageError(msg) == Raise("SystemExit", <<"2", msg>>)

\* sys.exit(msg)
Exit(msg) == Raise("SystemExit", msg)

\* the command run whether or not dry_run is set
evendry(opts, cmd) == <<System(cmd)>>

\* if not opts.dry_run: os.system(cmd)
unlessdry(opts, cmd) == IF opts.dry_run THEN <<>> ELSE <<System(cmd)>>

\* the range of the log query without the increment of its start
lograngeSame(beginrev, endrev) == range(beginrev, endrev)

\* '%s:%s' % (beginrev + 1, endrev), the range of the log query
logrange(beginrev, endrev) == range(IntV(beginrev.int + 1), endrev)

\* the revision range given next to --reintegrate
mergeoptionBoth(opts, beginrev, endrev) ==
    (IF opts.reintegrate THEN << <<"--reintegrate">> >> ELSE <<>>)
        \o << <<"-r", " ">> \o range(beginrev, endrev) >>

\* lines 578-581: --reintegrate in place of the revision range
mergeoption(opts, beginrev, endrev) ==
    IF opts.reintegrate THEN << <<"--reintegrate">> >>
    ELSE << <<"-r", " ">> \o range(beginrev, endrev) >>

\* trunk is merged from where trunk began, like any branch
ownbranchNever(rev, branchname) == FALSE

\* line 562, under rev == 'ALL': merging trunk starts where the current
\* branch began
ownbranch(rev, branchname) == rev = ALL /\ branchname = trunk

\* no token is refused
refusesNothing(rev) == FALSE

\* line 627: revert refuses to revert a whole branch
refuses(rev) == rev = ALL

\* the target is never taken for the current branch
samebranchNever(cur_branch, branch) == FALSE

\* line 705
samebranch(cur_branch, branch) == cur_branch = branch

\* print '\n'.join(listtags(path)) or listbranches(path)
listing(tags, path, info) ==
    LET url == urlofinfo(info) IN
    IF url.kind = "raise" THEN Out(url, <<svninfo(path)>>)
    ELSE LET chunks == split(url.value, "/")
             container == IF tags THEN tagcontainer(chunks)
                          ELSE branchcontainer(chunks)
         IN  Out(Return(None),
                 <<svninfo(path), svnls(join(container, "/"))>>)

\* lines 499-600
ezmerge(opts, args, info, log, curlog) ==
    IF ~opts.list_branches /\ Len(args) < 1
    THEN Out(UsageError("too few arguments"), <<>>)
    ELSE IF ~opts.list_branches /\ Len(args) > 3
    THEN Out(UsageError("too many arguments"), <<>>)
    ELSE IF opts.list_branches THEN listing(opts.tag, dot, info)
    ELSE
    LET rev == IF Len(args) = 1 THEN ALL ELSE args[1]
        branchname == IF Len(args) = 1 THEN args[1] ELSE args[2]
        path == IF Len(args) > 2 THEN args[3] ELSE dot
        branch == IF opts.tag THEN determinetag(branchname, info)
                  ELSE determinebranch(branchname, info)
        q1 == <<svninfo(path)>>
    IN
    IF branch.kind = "raise" THEN Out(branch, q1)
    ELSE
    LET cur == urlofinfo(info).value
        \* line 562: merging all of trunk starts where the own branch began
        own == ownbranch(rev, branchname)
        first == IF rev = ALL THEN branchpoints(log) ELSE revs(rev)
        \* the log of one URL is the same text both times it is asked for
        second == IF cur = branch.value THEN first ELSE branchpoints(curlog)
        q2 == IF rev = ALL THEN <<svnlog(branch.value)>> ELSE <<>>
        q3 == IF own THEN <<svninfo(path), svnlog(cur)>> ELSE <<>>
    IN
    IF first.kind = "raise" THEN Out(first, q1 \o q2)
    ELSE IF own /\ second.kind = "raise" THEN Out(second, q1 \o q2 \o q3)
    ELSE
    LET beginrev == IF own THEN second.value[1] ELSE first.value[1]
        endrev == first.value[2]
        merge_args ==
            << <<"svn">>, <<"merge">> >>
                \o mergeoption(opts, beginrev, endrev)
                \o (IF Len(opts.accept) > 0
                    THEN << <<"--accept">>, opts.accept >> ELSE <<>>)
                \o <<branch.value, path>>
        merge_cmd ==
            IF opts.diff
            THEN join(<< <<"svn">>, <<"diff">>, <<"-r">>,
                         range(beginrev, endrev), branch.value >>, " ")
            ELSE join(merge_args, " ")
        log_cmd == join(<< <<"svn">>, <<"log">>, <<"-r">>,
                           logrange(beginrev, endrev), branch.value >>, " ")
    IN  Out(Return(None),
            q1 \o q2 \o q3 \o <<System(log_cmd)>> \o unlessdry(opts, merge_cmd))

\* lines 604-643
ezrevert(opts, args) ==
    IF Len(args) < 1 THEN Out(UsageError("too few arguments"), <<>>)
    ELSE IF Len(args) > 2 THEN Out(UsageError("too many arguments"), <<>>)
    ELSE
    LET rev == args[1]
        path == IF Len(args) > 1 THEN args[2] ELSE dot
    IN
    IF refuses(rev)
    THEN Out(Exit(<<"I refuse to revert all checkins in a branch">>), <<>>)
    ELSE
    LET r == revs(rev) IN
    IF r.kind = "raise" THEN Out(r, <<>>)
    ELSE
    LET beginrev == r.value[1]
        endrev == r.value[2]
        merge_cmd == join(<< <<"svn">>, <<"merge">>, <<"-r">>,
                             range(endrev, beginrev), path >>, " ")
        log_cmd == join(<< <<"svn">>, <<"log">>, <<"-r">>,
                           logrange(beginrev, endrev), path >>, " ")
    IN  Out(Return(None), <<System(log_cmd)>> \o unlessdry(opts, merge_cmd))

\* the commands after the copy given up when the copy failed
aftercopyIfOk(status, cmds) == IF status = 0 THEN cmds ELSE <<>>

\* line 716: the value of os.system(cmd) is dropped, what follows the copy
\* runs whatever its exit status
aftercopy(status, cmds) == cmds

CantFigureOut(branch) ==
    Exit(<<"can't figure out the branch structure of ">> \o branch)

\* lines 647-721; status is the exit status os.system returns for the copy
ezswitch(opts, args, info, status) ==
    IF Len(args) > 2 THEN Out(UsageError("too many arguments"), <<>>)
    ELSE IF opts.list_branches THEN listing(opts.tag, dot, info)
    ELSE IF Len(args) = 0 THEN
        LET url == urlofinfo(info) IN
        Out(IF url.kind = "raise" THEN url ELSE Return(None), <<svninfo(dot)>>)
    ELSE
    LET name == IF opts.tag THEN <<"tags", "/">> \o args[1] ELSE args[1]
        path == IF Len(args) > 1 THEN args[2] ELSE dot
        branch == determinebranch(name, info)
        q1 == <<svninfo(path)>>
    IN
    IF branch.kind = "raise" THEN Out(branch, q1)
    ELSE
    LET cur_branch == urlofinfo(info).value
        q2 == IF opts.create_branch THEN <<svninfo(path)>> ELSE <<>>
        cp == withmessage(join(<< <<"svn">>, <<"cp">>, cur_branch,
                                  branch.value >>, " "), opts.message)
        switch == join(<< <<"svn">>, <<"switch">>, branch.value, path >>, " ")
    IN
    IF opts.create_branch /\ samebranch(cur_branch, branch.value)
    THEN Out(CantFigureOut(branch.value), q1 \o q2)
    ELSE Out(Return(None),
             q1 \o q2
                \o (IF opts.create_branch THEN unlessdry(opts, cp) ELSE <<>>)
                \o aftercopy(status, unlessdry(opts, switch)))

\* lines 725-764
eztag(opts, args, info) ==
    IF Len(args) > 2 THEN Out(UsageError("too many arguments"), <<>>)
    ELSE IF opts.list_tags THEN listing(TRUE, dot, info)
    ELSE IF Len(args) < 1 THEN Out(UsageError("too few arguments"), <<>>)
    ELSE
    LET newtag == determinetag(args[1], info) IN
    IF newtag.kind = "raise" THEN Out(newtag, <<svninfo(dot)>>)
    ELSE
    LET cmd == withmessage(join(<< <<"svn">>, <<"cp">>, dot,
                                   newtag.value >>, " "), opts.message)
    IN  Out(Return(None), <<svninfo(dot)>> \o unlessdry(opts, cmd))

\* lines 768-810
ezbranch(opts, args, info) ==
    IF Len(args) > 2 THEN Out(UsageError("too many arguments"), <<>>)
    ELSE IF opts.list_branches THEN listing(opts.tag, dot, info)
    ELSE IF Len(args) = 0 THEN
        LET url == urlofinfo(info) IN
        Out(IF url.kind = "raise" THEN url ELSE Return(None), <<svninfo(dot)>>)
    ELSE
    LET name == IF opts.tag THEN <<"tags", "/">> \o args[1] ELSE args[1]
        path == IF Len(args) > 1 THEN args[2] ELSE dot
        branch == determinebranch(name, info)
    IN  Out(IF branch.kind = "raise" THEN branch ELSE Return(None),
            <<svninfo(path)>>)

\* lines 814-853
rmbranch(opts, args, info) ==
    IF Len(args) > 1 THEN Out(UsageError("too many arguments"), <<>>)
    ELSE IF opts.list_branches THEN listing(FALSE, dot, info)
    ELSE IF Len(args) < 1 THEN Out(UsageError("too few arguments"), <<>>)
    ELSE
    LET branch == determinebranch(args[1], info) IN
    IF branch.kind = "raise" THEN Out(branch, <<svninfo(dot)>>)
    ELSE
    LET cmd == withmessage(join(<< <<"svn">>, <<"rm">>, branch.value >>, " "),
                           opts.message)
    IN  Out(Return(None), <<svninfo(dot)>> \o unlessdry(opts, cmd))

\* lines 857-897
mvbranch(opts, args, info) ==
    IF Len(args) > 2 THEN Out(UsageError("too many arguments"), <<>>)
    ELSE IF opts.list_branches THEN listing(FALSE, dot, info)
    ELSE IF Len(args) < 2 THEN Out(UsageError("too few arguments"), <<>>)
    ELSE
    LET oldbranch == determinebranch(args[1], info)
        newbranch == determinebranch(args[2], info)
    IN
    IF oldbranch.kind = "raise" THEN Out(oldbranch, <<svninfo(dot)>>)
    ELSE IF newbranch.kind = "raise"
    THEN Out(newbranch, <<svninfo(dot), svninfo(dot)>>)
    ELSE
    LET cmd == withmessage(join(<< <<"svn">>, <<"mv">>, oldbranch.value,
                                   newbranch.value >>, " "), opts.message)
    IN  Out(Return(None),
            <<svninfo(dot), svninfo(dot)>> \o unlessdry(opts, cmd))

\* lines 901-926
branchdiff(opts, args, info, log) ==
    IF opts.list_branches THEN listing(FALSE, dot, info)
    ELSE
    LET path == IF Len(args) > 1 THEN args[2] ELSE dot
        branch == IF Len(args) > 0 THEN determinebranch(args[1], info)
                  ELSE urlofinfo(info)
        q1 == <<svninfo(path)>>
    IN
    IF branch.kind = "raise" THEN Out(branch, q1)
    ELSE
    LET points == branchpoints(log)
        q2 == <<svnlog(branch.value)>>
    IN
    IF points.kind = "raise" THEN Out(points, q1 \o q2)
    ELSE
    LET diff_cmd == join(<< <<"svn">>, <<"diff">>, <<"-r">>,
                            range(points.value[1], points.value[2]),
                            branch.value >>, " ")
    IN  Out(Return(None), q1 \o q2 \o <<System(diff_cmd)>>)

\* lines 930-953
branchpoint(opts, args, info, log) ==
    IF opts.list_branches THEN listing(FALSE, dot, info)
    ELSE
    LET path == IF Len(args) > 1 THEN args[2] ELSE dot
        branch == IF Len(args) > 0 THEN determinebranch(args[1], info)
                  ELSE urlofinfo(info)
        q1 == <<svninfo(path)>>
    IN
    IF branch.kind = "raise" THEN Out(branch, q1)
    ELSE
    LET points == branchpoints(log) IN
    Out(IF points.kind = "raise" THEN points ELSE Return(None),
        q1 \o <<svnlog(branch.value)>>)

---------------------------------------------------------------------------
(* Branch histories: svn log lists the newest revision first.              *)

Histories ==
    {h \in UNION {[1..n -> 1..MaxRev] : n \in 0..MaxLog} :
        \A i \in 1..(Len(h) - 1) : h[i] > h[i + 1]}

\* text that is no XML document: nothing at all (svn failed and printed to
\* stderr only), or a log cut short before </log>
Truncated(text) == SubSeq(text, 1, Len(text) - 1)

LogTexts ==
    {LogText(h) : h \in Histories}
        \cup {Truncated(LogText(h)) : h \in Histories} \cup {<<>>}

---------------------------------------------------------------------------
(* The working-copy URLs and the target names given to determinebranch.    *)

\* the repository root, http://x
Root == <<"http:", "/", "/", "x">>

SegWords == {"sub", "old", "trunk", "branches", "branch", "tags", "tag"}

SegSeqs == UNION {[1..n -> SegWords] : n \in 1..MaxSegs}

\* the URL of the path segs under the repository root
UrlOf(segs) == join(<<Root>> \o [i \in 1..Len(segs) |-> <<segs[i]>>], "/")

Urls == {UrlOf(segs) : segs \in SegSeqs}

\* svn info as printed by svn up to 1.6, and from 1.7 on
InfoOld(url) ==
    << <<"Path:", " .">>, <<"URL: ">> \o url, <<"Repos", "itory UUID: u">> >>

InfoNew(url) ==
    << <<"Path:", " .">>, <<"Worki", "ng Copy Root Path: /wc">>,
       <<"URL: ">> \o url, <<"Repos", "itory UUID: u">> >>

Infos == {InfoOld(u) : u \in Urls} \cup {InfoNew(u) : u \in Urls}

BranchNames ==
    { trunk, <<"foo">>, <<"old">>, <<"tags">>,
      <<"tag", "/", "foo">>, <<"sub", "/", "foo">>,
      <<"tags", "/", "sub", "/", "foo">> }

\* tag names: plain, equal to a segment of the URL, and with a '/'
TagNames == { <<"foo">>, <<"old">>, <<"rel", "/", "foo">> }

---------------------------------------------------------------------------
(* The dispatcher eazysvn(argv): src/eazysvn.py lines 983-992.  argv is    *)
(* the program name, the sub-command name and its arguments; an argv       *)
(* without options parses to the default options.                          *)

\* the options of a sub-command when none is given
MergeDefaults ==
    [list_branches |-> FALSE, reintegrate |-> FALSE, accept |-> None,
     diff |-> FALSE, tag |-> FALSE, dry_run |-> FALSE]

SwitchDefaults ==
    [list_branches |-> FALSE, tag |-> FALSE, create_branch |-> FALSE,
     message |-> None, dry_run |-> FALSE]

TagDefaults == [message |-> None, dry_run |-> FALSE, list_tags |-> FALSE]

BranchDefaults ==
    [message |-> None, dry_run |-> FALSE, list_branches |-> FALSE]

UrlDefaults == [list_branches |-> FALSE, tag |-> FALSE]

\* the names registered by @command: lines 498-964
COMMANDS ==
    { <<"merge">>, <<"revert">>, <<"switch">>, <<"tag">>, <<"branchurl">>,
      <<"rmbranch">>, <<"mvbranch">>, <<"branchdiff">>, <<"branchpoint">>,
      <<"selftest">>, <<"help">> }

UnknownCommand(cmd) == Exit(<<"Unknown command: ">> \o cmd \o <<".">>)

\* an unknown name handed to the merge sub-command
eazysvnAnyName(argv, info, log, curlog) ==
    ezmerge(MergeDefaults, SubSeq(argv, 3, Len(argv)), info, log, curlog)

\* lines 983-992; selftest and help print and run no svn command
eazysvn(argv, info, log, curlog) ==
    IF Len(argv) < 2 \/ argv[2] \in {<<"-h">>, <<"--help">>}
    THEN Out(Return(None), <<>>)
    ELSE
    LET cmd == argv[2]
        args == SubSeq(argv, 3, Len(argv))
    IN
    IF cmd \notin COMMANDS THEN Out(UnknownCommand(cmd), <<>>)
    ELSE IF cmd = <<"merge">>
    THEN ezmerge(MergeDefaults, args, info, log, curlog)
    ELSE IF cmd = <<"revert">> THEN ezrevert([dry_run |-> FALSE], args)
    ELSE IF cmd = <<"switch">> THEN ezswitch(SwitchDefaults, args, info, 0)
    ELSE IF cmd = <<"tag">> THEN eztag(TagDefaults, args, info)
    ELSE IF cmd = <<"branchurl">> THEN ezbranch(UrlDefaults, args, info)
    ELSE IF cmd = <<"rmbranch">> THEN rmbranch(BranchDefaults, args, info)
    ELSE IF cmd = <<"mvbranch">> THEN mvbranch(BranchDefaults, args, info)
    ELSE IF cmd = <<"branchdiff">>
    THEN branchdiff([list_branches |-> FALSE], args, info, log)
    ELSE IF cmd = <<"branchpoint">>
    THEN branchpoint([list_branches |-> FALSE], args, info, log)
    ELSE Out(Return(None), <<>>)

---------------------------------------------------------------------------
(* The command lines given to the sub-commands, after option parsing, and  *)
(* the replies of svn.                                                     *)

\* the values of -m and --accept
Messages == {None, <<"msg">>, <<"It", "'", "s">>}

Accepts == {None, <<"postpone">>}

MergeOpts ==
    [list_branches : BOOLEAN, reintegrate : BOOLEAN, accept : Accepts,
     diff : BOOLEAN, tag : BOOLEAN, dry_run : BOOLEAN]

RevertOpts == [dry_run : BOOLEAN]

SwitchOpts ==
    [list_branches : BOOLEAN, tag : BOOLEAN, create_branch : BOOLEAN,
     message : Messages, dry_run : BOOLEAN]

TagOpts == [message : Messages, dry_run : BOOLEAN, list_tags : BOOLEAN]

BranchOpts == [message : Messages, dry_run : BOOLEAN, list_branches : BOOLEAN]

ListOpts == [list_branches : BOOLEAN]

\* revision arguments: ALL, 7, r7, 0, 12, 3-7, 7:3, 7-3 (empty), 3-HEAD, x
RevArgs ==
    { ALL, <<"7">>, <<"r", "7">>, <<"0">>, <<"1", "2">>, <<"3", "-", "7">>,
      <<"7", ":", "3">>, <<"3", ":", "7">>, <<"7", "-", "3">>,
      <<"3", "-">> \o HEAD, <<"x">> }

NameArgs == { trunk, <<"foo">>, <<"tags", "/", "foo">> }

wc == <<"wc">>

\* positional arguments [rev] source-branch [wc-path], and too few or too many
MergeArgs ==
    {<<>>, <<ALL, trunk, wc, wc>>}
        \cup {<<b>> : b \in NameArgs}
        \cup {<<r, b>> : r \in RevArgs, b \in NameArgs}
        \cup {<<r, b, wc>> : r \in RevArgs, b \in NameArgs}

\* positional arguments rev [wc-path]
RevertArgs ==
    {<<>>, <<ALL, wc, wc>>}
        \cup {<<r>> : r \in RevArgs} \cup {<<r, wc>> : r \in RevArgs}

\* positional arguments [branch [wc-path]]
BranchArgs ==
    {<<>>, <<trunk, wc, wc>>}
        \cup {<<b>> : b \in NameArgs} \cup {<<b, wc>> : b \in NameArgs}

\* positional arguments oldbranch newbranch
MoveArgs ==
    {<<>>, <<trunk>>, <<trunk, wc, wc>>}
        \cup {<<a, b>> : a \in NameArgs, b \in NameArgs}

\* positional arguments next to -l
ListArgs == {<<>>, <<trunk>>, <<trunk, wc, wc, wc>>}

UrlOpts == [list_branches : BOOLEAN, tag : BOOLEAN]

\* the command lines given to the dispatcher: no sub-command, help, every
\* registered name, an alias and an unknown name, with no, one, two or five
\* arguments
Argvs ==
    { <<wc>>, <<wc, <<"--help">> >> }
        \cup { <<wc, cmd>> \o args :
                  cmd \in COMMANDS \cup { <<"ezmerge">>, <<"blargh">> },
                  args \in { <<>>, << <<"foo">> >>, << <<"7">>, <<"foo">> >>,
                             <<trunk, wc, wc, wc, wc>> } }

\* the working copies: on trunk, on a branch, on a tag, at a container, and
\* outside any trunk/branches/tags layout
WcInfos ==
    { InfoOld(UrlOf(<<"trunk">>)), InfoOld(UrlOf(<<"trunk", "sub">>)),
      InfoNew(UrlOf(<<"branches", "foo">>)),
      InfoOld(UrlOf(<<"branch", "old", "sub">>)),
      InfoOld(UrlOf(<<"tags", "old">>)),
      InfoOld(UrlOf(<<"branches">>)), InfoOld(UrlOf(<<"sub">>)) }

\* svn ls output, line by line: directories and a file, a file only,
\* nothing
Listings ==
    { << <<"foo", "/">>, <<"README.txt">>, <<"bar", "/">> >>,
      << <<"README.txt">> >>, <<>> }

\* the exit status of a command run by os.system: success, or exit code 1
Statuses == {0, 256}

\* the reply to a query that the sub-command never makes
NotAsked == <<"(not asked)">>

\* svn log --xml of the source branch: two entries, one, none, cut short,
\* nothing
SourceLogs ==
    { LogText(<<9, 4>>), LogText(<<7>>), LogText(<<>>),
      Truncated(LogText(<<9, 4>>)), <<>> }

\* svn log --xml of the current branch
OwnLogs == { LogText(<<8, 6>>), LogText(<<>>), <<>> }

---------------------------------------------------------------------------
(* The state machine: the program keeps no state between invocations, so  *)
(* a behaviour is one invocation: a call from the initial state and its    *)
(* outcome.                                                                *)

NoCall == [fn |-> "none", args |-> <<>>]

Init ==
    /\ call = NoCall
    /\ ret = Return(<<>>)
    /\ ran = <<>>

CallRevs ==
    /\ call = NoCall
    /\ \E t \in Tokens :
           /\ call' = [fn |-> "revs", args |-> <<t>>]
           /\ ret' = revs(t)
           /\ ran' = <<>>

CallDetermineBranch ==
    /\ call = NoCall
    /\ \E b \in BranchNames, info \in Infos :
           /\ call' = [fn |-> "determinebranch", args |-> <<b, info>>]
           /\ ret' = determinebranch(b, info)
           /\ ran' = <<>>

CallDetermineTag ==
    /\ call = NoCall
    /\ \E t \in TagNames, info \in Infos :
           /\ call' = [fn |-> "determinetag", args |-> <<t, info>>]
           /\ ret' = determinetag(t, info)
           /\ ran' = <<>>

CallBranchpoints ==
    /\ call = NoCall
    /\ \E xml \in LogTexts :
           /\ call' = [fn |-> "branchpoints", args |-> <<xml>>]
           /\ ret' = branchpoints(xml)
           /\ ran' = <<>>

Ezmerge ==
    /\ call = NoCall
    /\ \E opts \in MergeOpts, info \in WcInfos :
       \E args \in (IF opts.list_branches THEN ListArgs ELSE MergeArgs) :
       LET all == /\ ~opts.list_branches
                  /\ Len(args) \in 1..3
                  /\ (Len(args) = 1 \/ args[1] = ALL)
           own == all /\ args[IF Len(args) = 1 THEN 1 ELSE 2] = trunk
       IN
       \E log \in (IF all THEN SourceLogs ELSE {NotAsked}),
          curlog \in (IF own THEN OwnLogs ELSE {NotAsked}) :
           LET r == ezmerge(opts, args, info, log, curlog) IN
           /\ call' = [fn |-> "ezmerge",
                       args |-> <<opts, args, info, log, curlog>>]
           /\ ret' = r.ret
           /\ ran' = r.ran

Ezrevert ==
    /\ call = NoCall
    /\ \E opts \in RevertOpts, args \in RevertArgs :
           LET r == ezrevert(opts, args) IN
           /\ call' = [fn |-> "ezrevert", args |-> <<opts, args>>]
           /\ ret' = r.ret
           /\ ran' = r.ran

Ezswitch ==
    /\ call = NoCall
    /\ \E opts \in SwitchOpts, info \in WcInfos, status \in Statuses :
       \E args \in (IF opts.list_branches THEN ListArgs ELSE BranchArgs) :
           LET r == ezswitch(opts, args, info, status) IN
           /\ call' = [fn |-> "ezswitch", args |-> <<opts, args, info, status>>]
           /\ ret' = r.ret
           /\ ran' = r.ran

Eztag ==
    /\ call = NoCall
    /\ \E opts \in TagOpts, info \in WcInfos :
       \E args \in (IF opts.list_tags THEN ListArgs ELSE BranchArgs) :
           LET r == eztag(opts, args, info) IN
           /\ call' = [fn |-> "eztag", args |-> <<opts, args, info>>]
           /\ ret' = r.ret
           /\ ran' = r.ran

Rmbranch ==
    /\ call = NoCall
    /\ \E opts \in BranchOpts, info \in WcInfos :
       \E args \in (IF opts.list_branches THEN ListArgs ELSE BranchArgs) :
           LET r == rmbranch(opts, args, info) IN
           /\ call' = [fn |-> "rmbranch", args |-> <<opts, args, info>>]
           /\ ret' = r.ret
           /\ ran' = r.ran

Mvbranch ==
    /\ call = NoCall
    /\ \E opts \in BranchOpts, info \in WcInfos :
       \E args \in (IF opts.list_branches THEN ListArgs ELSE MoveArgs) :
           LET r == mvbranch(opts, args, info) IN
           /\ call' = [fn |-> "mvbranch", args |-> <<opts, args, info>>]
           /\ ret' = r.ret
           /\ ran' = r.ran

Branchdiff ==
    /\ call = NoCall
    /\ \E opts \in ListOpts, info \in WcInfos :
       \E args \in (IF opts.list_branches THEN ListArgs ELSE BranchArgs),
          log \in (IF opts.list_branches THEN {NotAsked} ELSE SourceLogs) :
           LET r == branchdiff(opts, args, info, log) IN
           /\ call' = [fn |-> "branchdiff", args |-> <<opts, args, info, log>>]
           /\ ret' = r.ret
           /\ ran' = r.ran

Branchpoint ==
    /\ call = NoCall
    /\ \E opts \in ListOpts, info \in WcInfos :
       \E args \in (IF opts.list_branches THEN ListArgs ELSE BranchArgs),
          log \in (IF opts.list_branches THEN {NotAsked} ELSE SourceLogs) :
           LET r == branchpoint(opts, args, info, log) IN
           /\ call' = [fn |-> "branchpoint", args |-> <<opts, args, info, log>>]
           /\ ret' = r.ret
           /\ ran' = r.ran

CallListBranches ==
    /\ call = NoCall
    /\ \E u \in Urls, ls \in Listings :
           LET r == listbranches(dot, InfoOld(u), ls) IN
           /\ call' = [fn |-> "listbranches", args |-> <<dot, InfoOld(u), ls>>]
           /\ ret' = r.ret
           /\ ran' = r.ran

CallListTags ==
    /\ call = NoCall
    /\ \E u \in Urls, ls \in Listings :
           LET r == listtags(dot, InfoOld(u), ls) IN
           /\ call' = [fn |-> "listtags", args |-> <<dot, InfoOld(u), ls>>]
           /\ ret' = r.ret
           /\ ran' = r.ran

Ezbranch ==
    /\ call = NoCall
    /\ \E opts \in UrlOpts, info \in WcInfos :
       \E args \in (IF opts.list_branches THEN ListArgs ELSE BranchArgs) :
           LET r == ezbranch(opts, args, info) IN
           /\ call' = [fn |-> "ezbranch", args |-> <<opts, args, info>>]
           /\ ret' = r.ret
           /\ ran' = r.ran

Eazysvn ==
    /\ call = NoCall
    /\ \E argv \in Argvs, info \in WcInfos :
           LET log == LogText(<<9, 4>>)
               curlog == LogText(<<8, 6>>)
               r == eazysvn(argv, info, log, curlog)
           IN
           /\ call' = [fn |-> "eazysvn", args |-> <<argv, info, log, curlog>>]
           /\ ret' = r.ret
           /\ ran' = r.ran

NextRevs == CallRevs

NextResolve == CallDetermineBranch

NextTag == CallDetermineTag

NextLog == CallBranchpoints

NextList == CallListBranches \/ CallListTags

SpecList == Init /\ [][NextList]_vars

NextCmd ==
    \/ Ezmerge
    \/ Ezrevert
    \/ Ezswitch
    \/ Eztag
    \/ Rmbranch
    \/ Mvbranch
    \/ Branchdiff
    \/ Branchpoint
    \/ Ezbranch
    \/ Eazysvn

SpecCmd == Init /\ [][NextCmd]_vars

SpecLog == Init /\ [][NextLog]_vars

SpecTag == Init /\ [][NextTag]_vars

SpecResolve == Init /\ [][NextResolve]_vars

SpecRevs == Init /\ [][NextRevs]_vars

Next ==
    \/ CallRevs
    \/ CallDetermineBranch
    \/ CallDetermineTag
    \/ CallBranchpoints
    \/ NextList
    \/ NextCmd

Spec == Init /\ [][Next]_vars

---------------------------------------------------------------------------
(* Claims about revs, checked under SpecRevs.                              *)

IsRevs == call.fn = "revs"

\* the token of the call in this state
Token == call.args[1]

IsNumber(s) == IsIntLiteral(s)

\* t is 'a<sep>b' with a a number and b a number or 'HEAD'
IsRange(t, sep) ==
    LET p == split(t, sep) IN
    Len(p) = 2 /\ IsNumber(p[1]) /\ (IsNumber(p[2]) \/ p[2] = HEAD)

\* the two sides of the range t
Left(t, sep) == split(t, sep)[1]

Right(t, sep) == split(t, sep)[2]

\* an accepted form that does not start with 'r'
IsPlain(t) == IsNumber(t) \/ IsRange(t, "-") \/ IsRange(t, ":")

EmptyRange(a, b) ==
    Raise("ValueError", <<"empty range", IntV(int(a)), IntV(int(b))>>)

\* C1 as stated: for every hyphen range 'a-b' with integers a >= b, a == b
\* included, revs raises ValueError 'empty range' and returns no range.
C1_AsStated ==
    (IsRevs /\ IsRange(Token, "-") /\ IsNumber(Right(Token, "-"))) =>
        LET a == Left(Token, "-")
            b == Right(Token, "-")
        IN  int(a) >= int(b) => ret = EmptyRange(a, b)

\* C1 amended: for every hyphen range 'a-b' with integers a > b, revs raises
\* ValueError 'empty range (a-b)'; with a == b it returns (a-1, b).
C1_HyphenEmptyRange ==
    (IsRevs /\ IsRange(Token, "-") /\ IsNumber(Right(Token, "-"))) =>
        LET a == Left(Token, "-")
            b == Right(Token, "-")
        IN  /\ int(a) > int(b) => ret = EmptyRange(a, b)
            /\ int(a) = int(b) => ret = Return(<<IntV(int(a) - 1), IntV(int(b))>>)

C1_Witness ==
    /\ IsRevs
    /\ IsRange(Token, "-")
    /\ IsNumber(Right(Token, "-"))
    /\ int(Left(Token, "-")) > int(Right(Token, "-")) + 1
    /\ ret.kind = "raise"

\* C2: for every hyphen range 'a-b' with a an integer and b an integer with
\* a < b or the literal 'HEAD', revs returns (a-1, b) and does not raise.
C2_HyphenRange ==
    (IsRevs /\ IsRange(Token, "-")) =>
        LET a == Left(Token, "-")
            b == Right(Token, "-")
        IN  IF b = HEAD
            THEN ret = Return(<<IntV(int(a) - 1), StrV(HEAD)>>)
            ELSE int(a) < int(b)
                     => ret = Return(<<IntV(int(a) - 1), IntV(int(b))>>)

C2_Witness ==
    /\ IsRevs
    /\ IsRange(Token, "-")
    /\ Right(Token, "-") = HEAD
    /\ int(Left(Token, "-")) > 0
    /\ ret.kind = "return"

\* C3: for every bare-number token n (decimal digits only), revs(n) yields
\* begin = n-1 and end = n (the token itself).
C3_BareNumber ==
    (IsRevs /\ IsNumber(Token)) =>
        ret = Return(<<IntV(int(Token) - 1), StrV(Token)>>)

C3_Witness ==
    /\ IsRevs
    /\ IsNumber(Token)
    /\ Len(Token) > 1
    /\ ret.kind = "return"
    /\ ret.value[1] = IntV(int(Token) - 1)

\* C4: for every colon range 'a:b' with a an integer and b an integer or the
\* literal 'HEAD' (b < a and b == a included), revs returns (a, b) with no
\* decrement of a and never raises the invalid-range error.
C4_ColonRange ==
    (IsRevs /\ IsRange(Token, ":")) =>
        LET a == Left(Token, ":")
            b == Right(Token, ":")
        IN  ret = Return(<<IntV(int(a)),
                           IF b = HEAD THEN StrV(HEAD) ELSE IntV(int(b))>>)

C4_Witness ==
    /\ IsRevs
    /\ IsRange(Token, ":")
    /\ IsNumber(Right(Token, ":"))
    /\ int(Right(Token, ":")) < int(Left(Token, ":"))
    /\ ret.kind = "return"

\* C5: for every token t in an accepted form that does not start with 'r'
\* (bare number, hyphen range, colon range), revs('r' + t) gives the same
\* result, or the same error, as revs(t).
C5_LeadingR ==
    (IsRevs /\ startswith(Token, "r") /\ IsPlain(Tail(Token))) =>
        ret = revs(Tail(Token))

C5_Witness ==
    /\ IsRevs
    /\ startswith(Token, "r")
    /\ IsRange(Tail(Token), "-")
    /\ ret.kind = "raise"
    /\ ret = revs(Tail(Token))

\* the token without the 'r' that may lead it
Plain(t) == IF startswith(t, "r") THEN Tail(t) ELSE t

\* C6 as stated: every range returned by revs for an accepted token form has
\* an integer begin and an end that is an integer or the literal 'HEAD',
\* never a numeric string.
C6_AsStated ==
    (IsRevs /\ IsPlain(Plain(Token)) /\ ret.kind = "return") =>
        /\ IsInt(ret.value[1])
        /\ IsInt(ret.value[2]) \/ ret.value[2] = StrV(HEAD)

\* C6 amended: every range returned by revs for an accepted token form has
\* an integer begin; its end is an integer or the literal 'HEAD' for a
\* hyphen or colon range, and for a bare or r-prefixed number it is the
\* numeric string that was typed (without the 'r').
C6_RangeTypes ==
    (IsRevs /\ IsPlain(Plain(Token)) /\ ret.kind = "return") =>
        /\ IsInt(ret.value[1])
        /\ IF IsNumber(Plain(Token))
           THEN ret.value[2] = StrV(Plain(Token))
           ELSE IsInt(ret.value[2]) \/ ret.value[2] = StrV(HEAD)

C6_Witness ==
    /\ IsRevs
    /\ startswith(Token, "r")
    /\ IsNumber(Tail(Token))
    /\ ret.kind = "return"
    /\ IsStr(ret.value[2])

---------------------------------------------------------------------------
(* Claims about determinebranch, checked under SpecResolve.                *)

IsResolve == call.fn = "determinebranch"

\* the target name and the working-copy URL of the call in this state
Target == call.args[1]

WcUrl == urlofinfo(call.args[2]).value

WcSegs == split(WcUrl, "/")

Pivotal == Markers \cup {trunk}

HasTrunk(segs) == \E i \in 1..Len(segs) : segs[i] = trunk

NoMarker(segs) == \A i \in 1..Len(segs) : segs[i] \notin Markers

\* a target of the form <marker>/<name>
MarkerSlashName(b) ==
    /\ Len(split(b, "/")) = 2
    /\ split(b, "/")[1] \in Markers

\* C7 as stated: for every trunk URL T (a URL with a 'trunk' segment) and
\* every branch name foo, determinebranch('trunk') applied to the URL
\* determinebranch(foo, T) returns T again.
C7_AsStated ==
    (IsResolve /\ HasTrunk(WcSegs)) =>
        /\ ret.kind = "return"
        /\ rewrite(trunk, ret.value) = Return(WcUrl)

\* C7 amended: for every trunk URL T that has no marker segment ('branch',
\* 'branches', 'tag', 'tags') and every branch name foo that contains no
\* '/' or has the form <marker>/<name>, determinebranch('trunk') applied to
\* the URL determinebranch(foo, T) returns T again.
C7_RoundTrip ==
    (/\ IsResolve
     /\ HasTrunk(WcSegs)
     /\ NoMarker(WcSegs)
     /\ ~istag(Target) \/ MarkerSlashName(Target)) =>
        /\ ret.kind = "return"
        /\ rewrite(trunk, ret.value) = Return(WcUrl)

C7_Witness ==
    /\ IsResolve
    /\ HasTrunk(WcSegs)
    /\ NoMarker(WcSegs)
    /\ Target = <<"foo">>
    /\ ret.kind = "return"
    /\ ret.value # WcUrl
    /\ rewrite(trunk, ret.value) = Return(WcUrl)

\* C8: determinebranch never fails: for every working-copy URL, one whose
\* last segment is a marker included, and every target name, it returns a
\* URL and raises no error.
C8_NeverFails ==
    IsResolve => ret.kind = "return"

\* the pivots of the scan: trunk and marker segments, a marker hiding the
\* segment it consumes
RECURSIVE PivotsFrom(_, _)
PivotsFrom(segs, i) ==
    IF i > Len(segs) THEN {}
    ELSE IF segs[i] \in Markers THEN {i} \cup PivotsFrom(segs, i + 2)
    ELSE IF segs[i] = trunk THEN {i} \cup PivotsFrom(segs, i + 1)
    ELSE PivotsFrom(segs, i + 1)

Pivots(segs) == PivotsFrom(segs, 1)

\* the last segment a pivot at i takes away: itself, or the name after it
PivotEnd(segs, i) == IF segs[i] \in Markers THEN i + 1 ELSE i

\* the segments that are neither a pivot in pivots nor consumed by one
Kept(segs, pivots) ==
    LET gone == pivots \cup {PivotEnd(segs, p) : p \in pivots}
        RECURSIVE keep(_)
        keep(i) == IF i > Len(segs) THEN <<>>
                   ELSE IF i \in gone THEN keep(i + 1)
                   ELSE <<segs[i]>> \o keep(i + 1)
    IN  keep(1)

RECURSIVE IsSubseq(_, _)
IsSubseq(a, b) ==
    IF Len(a) = 0 THEN TRUE
    ELSE IF Len(b) = 0 THEN FALSE
    ELSE IF a[1] = b[1] THEN IsSubseq(Tail(a), Tail(b))
    ELSE IsSubseq(a, Tail(b))

Min(S) == CHOOSE m \in S : \A n \in S : m <= n

Max(S) == CHOOSE m \in S : \A n \in S : m >= n

\* out keeps the first n segments of segs
SamePrefix(segs, out, n) ==
    Len(out) >= n /\ SubSeq(out, 1, n) = SubSeq(segs, 1, n)

\* out keeps the segments of segs after position k
SameSuffix(segs, out, k) ==
    LET n == Len(segs) - k IN
    /\ Len(out) >= n
    /\ SubSeq(out, Len(out) - n + 1, Len(out)) = SubSeq(segs, k + 1, Len(segs))

\* C9 as stated: determinebranch rewrites the URL at exactly one pivot, the
\* first trunk or marker segment from the root plus the old name a marker
\* consumes: every segment before the pivot and every segment after it is
\* in the result unchanged and in the same order, and a URL with no trunk
\* or marker segment is returned unchanged.
C9_AsStated ==
    (IsResolve /\ ret.kind = "return") =>
        LET segs == WcSegs
            pivots == Pivots(segs)
            out == split(ret.value, "/")
        IN  IF pivots = {} THEN out = segs
            ELSE LET p == Min(pivots) IN
                 /\ SamePrefix(segs, out, p - 1)
                 /\ SameSuffix(segs, out, PivotEnd(segs, p))

\* C9 amended: determinebranch rewrites the URL at every trunk or marker
\* segment the scan meets (with the old name a marker consumes), not only
\* at the first: every segment before the first of them and every segment
\* after the last of them is in the result unchanged and in the same order,
\* as are, in order, the segments between them; a URL with exactly one
\* pivot is rewritten there only, and a URL with no trunk or marker segment
\* is returned unchanged.
C9_Frame ==
    (IsResolve /\ ret.kind = "return") =>
        LET segs == WcSegs
            pivots == Pivots(segs)
            out == split(ret.value, "/")
        IN  IF pivots = {} THEN out = segs
            ELSE /\ SamePrefix(segs, out, Min(pivots) - 1)
                 /\ SameSuffix(segs, out, PivotEnd(segs, Max(pivots)))
                 /\ IsSubseq(Kept(segs, pivots), out)

C9_Witness ==
    /\ IsResolve
    /\ ret.kind = "return"
    /\ Cardinality(Pivots(WcSegs)) = 2
    /\ Len(Kept(WcSegs, Pivots(WcSegs))) = Len(split(Root, "/")) + 2
    /\ ret.value # WcUrl

\* C10: for every URL P/trunk/S, P and S without trunk or marker segment,
\* and every target name that is not 'trunk' and contains no '/',
\* determinebranch returns P/branches/<name>/S.
C10_TrunkToBranch ==
    IsResolve =>
        LET segs == WcSegs
            found == {i \in 1..Len(segs) : segs[i] \in Pivotal}
        IN  (/\ Cardinality(found) = 1
             /\ \A i \in found : segs[i] = trunk
             /\ Target # trunk
             /\ ~contains(Target, "/")) =>
                LET i == CHOOSE k \in found : TRUE IN
                ret = Return(join(SubSeq(segs, 1, i - 1)
                                    \o << <<"branches">>, Target >>
                                    \o SubSeq(segs, i + 1, Len(segs)), "/"))

C10_Witness ==
    /\ IsResolve
    /\ WcUrl = UrlOf(<<"old", "trunk", "sub">>)
    /\ Target = <<"foo">>
    /\ ret = Return(UrlOf(<<"old", "branches", "foo", "sub">>))

\* C11: with target 'trunk', determinebranch replaces every marker segment
\* of the scan together with the name segment after it by the one segment
\* 'trunk' and keeps every other segment, the trailing path included; a URL
\* with a 'trunk' segment and no marker segment comes back unchanged.
C11_TrunkTarget ==
    (IsResolve /\ Target = trunk /\ ret.kind = "return") =>
        LET segs == WcSegs
            marks == {p \in Pivots(segs) : segs[p] \in Markers}
            RECURSIVE build(_)
            build(i) == IF i > Len(segs) THEN <<>>
                        ELSE IF i \in marks THEN <<trunk>> \o build(i + 2)
                        ELSE <<segs[i]>> \o build(i + 1)
        IN  /\ ret.value = join(build(1), "/")
            /\ (HasTrunk(segs) /\ NoMarker(segs)) => ret.value = WcUrl

C11_Witness ==
    /\ IsResolve
    /\ Target = trunk
    /\ WcUrl = UrlOf(<<"sub", "branches", "old", "sub">>)
    /\ ret = Return(UrlOf(<<"sub", "trunk", "sub">>))

---------------------------------------------------------------------------
(* Claims about determinetag, checked under SpecTag.                       *)

IsTagCall == call.fn = "determinetag"

\* C12: determinetag substitutes a tag container of the old marker's
\* number: 'branches' or 'tags' and the name after it become 'tags' and the
\* tag name, 'branch' or 'tag' and the name after it become 'tag' and the
\* tag name, a 'trunk' segment becomes 'tags' and the tag name, whether or
\* not the tag name has a '/'; every other segment is unchanged.
C12_TagContainer ==
    (IsTagCall /\ ret.kind = "return") =>
        LET segs == WcSegs
            pivots == Pivots(segs)
            plural == {<<"branches">>, <<"tags">>, trunk}
            RECURSIVE build(_)
            build(i) ==
                IF i > Len(segs) THEN <<>>
                ELSE IF i \in pivots THEN
                    << (IF segs[i] \in plural THEN <<"tags">> ELSE <<"tag">>),
                       Target >> \o build(PivotEnd(segs, i) + 1)
                ELSE <<segs[i]>> \o build(i + 1)
        IN  ret.value = join(build(1), "/")

C12_Witness ==
    /\ IsTagCall
    /\ Target = <<"rel", "/", "foo">>
    /\ WcUrl = UrlOf(<<"tag", "old", "sub", "trunk">>)
    /\ ret = Return(UrlOf(<<"tag", "rel", "foo", "sub", "tags", "rel", "foo">>))

---------------------------------------------------------------------------
(* Claims about branchpoints, checked under SpecLog.                       *)

IsBranchpoints == call.fn = "branchpoints"

LogXml == call.args[1]

\* the revision numbers between the quotes of the logentry tags of a text,
\* in the order of the text
RECURSIVE RevisionsIn(_)
RevisionsIn(text) ==
    IF Len(text) = 0 THEN <<>>
    ELSE IF Head(text) = "<logentry revision=\"" THEN
        LET k == CHOOSE i \in 1..Len(text) : text[i] = "\">"
                     /\ \A j \in 1..(i - 1) : text[j] # "\">"
        IN  <<int(SubSeq(text, 2, k - 1))>>
                \o RevisionsIn(SubSeq(text, k + 1, Len(text)))
    ELSE RevisionsIn(Tail(text))

WellFormed(text) == text[Len(text)] = "</log>"

\* C13: for every well-formed log with at least one entry, branchpoints
\* returns (oldest, newest): newest the revision of the first entry of the
\* log, oldest the revision of the last entry.
C13_OldestNewest ==
    (IsBranchpoints /\ Len(LogXml) > 0 /\ WellFormed(LogXml)
                    /\ Len(RevisionsIn(LogXml)) > 0) =>
        LET revisions == RevisionsIn(LogXml) IN
        ret = Return(<<IntV(revisions[Len(revisions)]), IntV(revisions[1])>>)

C13_Witness ==
    /\ IsBranchpoints
    /\ LogXml = LogText(<<12, 7, 3>>)
    /\ ret = Return(<<IntV(3), IntV(12)>>)

---------------------------------------------------------------------------
(* Claims about the sub-commands, checked under SpecCmd.                   *)

IsCmd(fn) == call.fn = fn

Opts == call.args[1]

Args == call.args[2]

\* the commands run through os.system, in order
Commands ==
    LET sys == SelectSeq(ran, LAMBDA e : e.via = "system") IN
    [i \in 1..Len(sys) |-> sys[i].cmd]

\* the history queries made, in order
LogQueries ==
    SelectSeq(ran, LAMBDA e : e.via = "Popen" /\ e.cmd[3] = "log")

Failed(exc) == ret.kind = "raise" /\ ret.value[1] = exc

EndsWith(s, t) ==
    Len(s) >= Len(t) /\ SubSeq(s, Len(s) - Len(t) + 1, Len(s)) = t

\* a command line of the given words
Line(words) == join(words, " ")

Svn(words) == Line(<< <<"svn">> >> \o words)

\* a revision range a:b
Rng(a, b) == fmt(a) \o <<":">> \o fmt(b)

\* the sub-commands that make history queries
UsesHistory == {"ezmerge", "branchdiff", "branchpoint"}

\* the text of the source branch's log, and of the current branch's log
SourceLog == call.args[4]

OwnLog == call.args[5]

\* the reply to the last history query made: the current branch's log is
\* asked for second, and is the same text when it is the same URL
LastLogReply ==
    IF Len(LogQueries) = 2 /\ LogQueries[1] # LogQueries[2]
    THEN OwnLog ELSE SourceLog

\* C14: when the reply to a history query cannot be parsed, the sub-command
\* exits with the message 'Could not parse svn log output:' followed by the
\* raw reply; the history query is the last thing it runs and no command is
\* executed.
C14_UnparsableLog ==
    (call.fn \in UsesHistory /\ Len(LogQueries) > 0
        /\ (Len(LastLogReply) = 0 \/ ~WellFormed(LastLogReply))) =>
            /\ Failed("SystemExit")
            /\ ret.value[2][1] = "Could not parse svn log output:\n\n"
            /\ Tail(ret.value[2]) = LastLogReply
            /\ ran[Len(ran)] = LogQueries[Len(LogQueries)]
            /\ Commands = <<>>

C14_Witness ==
    /\ IsCmd("ezmerge")
    /\ Args = <<ALL, <<"foo">>, wc>>
    /\ SourceLog = Truncated(LogText(<<9, 4>>))
    /\ Len(LogQueries) = 1
    /\ Failed("SystemExit")
    /\ EndsWith(ret.value[2], SourceLog)
    /\ Commands = <<>>

\* C15: revert of the token 'ALL' exits with the refusal message and runs
\* no external command, neither query nor log nor merge, with or without
\* dry-run and with or without a path.
C15_RevertAll ==
    (IsCmd("ezrevert") /\ Len(Args) \in 1..2 /\ Args[1] = ALL) =>
        /\ ret = Exit(<<"I refuse to revert all checkins in a branch">>)
        /\ ran = <<>>

C15_Witness ==
    /\ IsCmd("ezrevert")
    /\ Args = <<ALL, wc>>
    /\ Opts.dry_run
    /\ Failed("SystemExit")
    /\ ran = <<>>

\* a merge of a revision token: the token, the source name and the path
IsMerge == IsCmd("ezmerge") /\ ~Opts.list_branches /\ Len(Args) \in 1..3

MergeRev == IF Len(Args) = 1 THEN ALL ELSE Args[1]

MergeName == IF Len(Args) = 1 THEN Args[1] ELSE Args[2]

MergePath == IF Len(Args) > 2 THEN Args[3] ELSE dot

\* the resolved source URL of the merge
MergeSource ==
    IF Opts.tag THEN determinetag(MergeName, call.args[3])
    ELSE determinebranch(MergeName, call.args[3])

\* a merge whose token normalizes and whose source URL is resolved
MergesRange ==
    /\ IsMerge
    /\ MergeRev # ALL
    /\ revs(MergeRev).kind = "return"
    /\ MergeSource.kind = "return"

\* the two commands of a merge of (begin, end) from the source URL src
MergeLog(begin, end, src) ==
    Svn(<< <<"log">>, <<"-r">>, Rng(IntV(begin.int + 1), end), src >>)

MergeCmd(begin, end, src) ==
    Svn(<< <<"merge">>, <<"-r">>, Rng(begin, end), src, MergePath >>)

MergeAcceptCmd(begin, end, src) ==
    Svn(<< <<"merge">>, <<"-r">>, Rng(begin, end),
           <<"--accept">>, Opts.accept, src, MergePath >>)

\* C16 as stated: every merge of a token that normalizes to (begin, end),
\* without dry-run, diff or reintegrate, executes exactly the log query for
\* (begin+1):end on the source URL and then
\* 'svn merge -r begin:end <source URL> <path>'.
C16_AsStated ==
    (MergesRange /\ ~Opts.dry_run /\ ~Opts.diff /\ ~Opts.reintegrate) =>
        LET r == revs(MergeRev).value
            src == MergeSource.value
        IN  Commands = << MergeLog(r[1], r[2], src), MergeCmd(r[1], r[2], src) >>

\* C16: every merge of a token that normalizes to (begin, end), without
\* dry-run, diff or reintegrate, executes exactly two commands: the log
\* query for (begin+1):end on the source URL, then
\* 'svn merge -r begin:end <source URL> <path>', which has
\* '--accept <strategy>' after the range when an accept strategy is given.
C16_TwoCommands ==
    (MergesRange /\ ~Opts.dry_run /\ ~Opts.diff /\ ~Opts.reintegrate) =>
        LET r == revs(MergeRev).value
            src == MergeSource.value
        IN  Commands =
                << MergeLog(r[1], r[2], src),
                   IF Opts.accept = None THEN MergeCmd(r[1], r[2], src)
                   ELSE MergeAcceptCmd(r[1], r[2], src) >>

C16_Witness ==
    /\ IsCmd("ezmerge")
    /\ Args = << <<"3", "-", "7">>, <<"foo">>, wc >>
    /\ call.args[3] = InfoOld(UrlOf(<<"trunk", "sub">>))
    /\ Opts.accept = None
    /\ Commands =
        << <<"svn", " ", "log", " ", "-r", " ", "3", ":", "7", " ">>
               \o UrlOf(<<"branches", "foo", "sub">>),
           <<"svn", " ", "merge", " ", "-r", " ", "2", ":", "7", " ">>
               \o UrlOf(<<"branches", "foo", "sub">>) \o <<" ", "wc">> >>

\* the oldest and the newest revision of a log text
Oldest(text) == RevisionsIn(text)[Len(RevisionsIn(text))]

Newest(text) == RevisionsIn(text)[1]

\* C17: a merge of 'ALL', or without a revision token, that gets to its
\* commands uses (begin, end) = (oldest, newest) of the history of the
\* resolved source URL, except that for the source name 'trunk' begin is the
\* oldest revision of the history of the working copy's own URL.
C17_MergeAll ==
    (IsMerge /\ MergeRev = ALL /\ ret.kind = "return") =>
        LET src == MergeSource.value
            own == IF Len(LogQueries) = 2 THEN LastLogReply ELSE SourceLog
            begin == IntV(IF MergeName = trunk THEN Oldest(own)
                          ELSE Oldest(SourceLog))
            end == IntV(Newest(SourceLog))
        IN  /\ Len(LogQueries) = (IF MergeName = trunk THEN 2 ELSE 1)
            /\ Commands[1] = MergeLog(begin, end, src)
            /\ (~Opts.dry_run /\ ~Opts.diff /\ ~Opts.reintegrate
                    /\ Opts.accept = None) =>
                   Commands = << MergeLog(begin, end, src),
                                 MergeCmd(begin, end, src) >>

C17_Witness ==
    /\ IsCmd("ezmerge")
    /\ Args = <<trunk>>
    /\ call.args[3] = InfoNew(UrlOf(<<"branches", "foo">>))
    /\ SourceLog = LogText(<<9, 4>>)
    /\ OwnLog = LogText(<<8, 6>>)
    /\ Commands =
        << <<"svn", " ", "log", " ", "-r", " ", "7", ":", "9", " ">>
               \o UrlOf(<<"trunk">>),
           <<"svn", " ", "merge", " ", "-r", " ", "6", ":", "9", " ">>
               \o UrlOf(<<"trunk">>) \o <<" ", ".">> >>

\* the sub-commands with a dry-run option
HasDryRun ==
    {"ezmerge", "ezrevert", "ezswitch", "eztag", "rmbranch", "mvbranch"}

\* C18: with dry-run set, merge, revert, switch, tag, rmbranch and mvbranch
\* execute no merge, diff, copy, switch, remove or move command, whatever
\* their other flags: the only command executed is the log query of a merge
\* or revert, which is still executed when the sub-command completes.
C18_DryRun ==
    (call.fn \in HasDryRun /\ Opts.dry_run) =>
        /\ \A i \in 1..Len(Commands) :
               /\ call.fn \in {"ezmerge", "ezrevert"}
               /\ SubSeq(Commands[i], 1, 3) = <<"svn", " ", "log">>
        /\ (IsMerge /\ ret.kind = "return") => Len(Commands) = 1
        /\ (IsCmd("ezrevert") /\ ret.kind = "return") => Len(Commands) = 1

C18_Witness ==
    /\ IsCmd("ezmerge")
    /\ Opts.dry_run /\ Opts.reintegrate /\ Opts.accept # None
    /\ Args = << <<"7">>, trunk >>
    /\ ret.kind = "return"
    /\ Len(Commands) = 1

\* a revert of a token that normalizes
RevertsRange ==
    /\ IsCmd("ezrevert")
    /\ Len(Args) \in 1..2
    /\ Args[1] # ALL
    /\ revs(Args[1]).kind = "return"

RevertPath == IF Len(Args) > 1 THEN Args[2] ELSE dot

RevertLog(begin, end) ==
    Svn(<< <<"log">>, <<"-r">>, Rng(IntV(begin.int + 1), end), RevertPath >>)

RevertCmd(begin, end) ==
    Svn(<< <<"merge">>, <<"-r">>, Rng(end, begin), RevertPath >>)

\* C19 as stated: for every token that normalizes to (begin, end), revert
\* executes the log query for (begin+1):end on the path and then
\* 'svn merge -r end:begin <path>'.
C19_AsStated ==
    RevertsRange =>
        LET r == revs(Args[1]).value IN
        Commands = << RevertLog(r[1], r[2]), RevertCmd(r[1], r[2]) >>

\* C19: for every token that normalizes to (begin, end), revert executes
\* the log query for (begin+1):end on the path and then, unless dry-run is
\* set, 'svn merge -r end:begin <path>'; with dry-run the log query is the
\* only command.
C19_RevertCommands ==
    RevertsRange =>
        LET r == revs(Args[1]).value IN
        Commands = << RevertLog(r[1], r[2]) >>
                       \o (IF Opts.dry_run THEN <<>>
                           ELSE << RevertCmd(r[1], r[2]) >>)

C19_Witness ==
    /\ IsCmd("ezrevert")
    /\ Args = << <<"3", "-", "7">>, wc >>
    /\ ~Opts.dry_run
    /\ Commands =
        << <<"svn", " ", "log", " ", "-r", " ", "3", ":", "7", " ", "wc">>,
           <<"svn", " ", "merge", " ", "-r", " ", "7", ":", "2", " ", "wc">> >>

\* a switch to a named branch or tag
IsSwitch == IsCmd("ezswitch") /\ ~Opts.list_branches /\ Len(Args) \in 1..2

\* the resolved target URL of the switch
SwitchTarget ==
    determinebranch(IF Opts.tag THEN <<"tags", "/">> \o Args[1] ELSE Args[1],
                    call.args[3])

\* C20: a switch with the create-branch flag whose resolved target URL is
\* the URL of the working copy exits with an error and executes no command,
\* neither the copy nor the switch.
C20_SameBranch ==
    (IsSwitch /\ Opts.create_branch
        /\ SwitchTarget = urlofinfo(call.args[3])) =>
            /\ Failed("SystemExit")
            /\ Commands = <<>>

C20_Witness ==
    /\ IsSwitch
    /\ Opts.create_branch
    /\ ~Opts.dry_run
    /\ Args = << <<"foo">> >>
    /\ call.args[3] = InfoNew(UrlOf(<<"branches", "foo">>))
    /\ ret = CantFigureOut(UrlOf(<<"branches", "foo">>))
    /\ Commands = <<>>

\* the copy and the switch of a switch that creates a branch
SwitchPath == IF Len(Args) > 1 THEN Args[2] ELSE dot

CopyStatus == call.args[4]

CopyCmd == Svn(<< <<"cp">>, urlofinfo(call.args[3]).value, SwitchTarget.value >>)

SwitchCmd == Svn(<< <<"switch">>, SwitchTarget.value, SwitchPath >>)

\* a switch that creates a branch other than the current one, without
\* dry-run
CreatesBranch ==
    /\ IsSwitch
    /\ Opts.create_branch
    /\ ~Opts.dry_run
    /\ SwitchTarget.kind = "return"
    /\ SwitchTarget # urlofinfo(call.args[3])

\* C21 as stated: a switch with the create-branch flag and without dry-run
\* whose resolved target differs from the current URL executes exactly
\* 'svn cp <current URL> <target URL>' and then
\* 'svn switch <target URL> <path>', whatever the exit status of the copy.
C21_AsStated ==
    CreatesBranch => Commands = << CopyCmd, SwitchCmd >>

\* C21: a switch with the create-branch flag and without dry-run whose
\* resolved target differs from the current URL executes exactly two
\* commands, whatever the exit status of the copy: first
\* 'svn cp <current URL> <target URL>', with ' -m ' and the message after
\* it when a message is given, then 'svn switch <target URL> <path>'.
C21_CopyThenSwitch ==
    CreatesBranch =>
        /\ Len(Commands) = 2
        /\ SubSeq(Commands[1], 1, Len(CopyCmd)) = CopyCmd
        /\ IF Opts.message = None THEN Commands[1] = CopyCmd
           ELSE SubSeq(Commands[1], Len(CopyCmd) + 1, Len(CopyCmd) + 3)
                    = <<" ", "-m", " ">>
        /\ Commands[2] = SwitchCmd

C21_Witness ==
    /\ IsSwitch
    /\ Opts.create_branch /\ ~Opts.dry_run /\ ~Opts.tag
    /\ Opts.message = None
    /\ CopyStatus # 0
    /\ Args = << <<"foo">> >>
    /\ call.args[3] = InfoOld(UrlOf(<<"trunk">>))
    /\ Commands =
        << <<"svn", " ", "cp", " ">> \o UrlOf(<<"trunk">>) \o <<" ">>
               \o UrlOf(<<"branches", "foo">>),
           <<"svn", " ", "switch", " ">> \o UrlOf(<<"branches", "foo">>)
               \o <<" ", ".">> >>

\* the sub-commands with a -m option, when they build a command with it
TakesMessage ==
    /\ call.fn \in {"eztag", "ezswitch", "rmbranch", "mvbranch"}
    /\ Opts.message # None
    /\ Len(Commands) > 0
    /\ IsCmd("ezswitch") => Opts.create_branch

\* a message as one shell word: in single quotes, each single quote of the
\* message rendered as '"'"'
RECURSIVE Escaped(_)
Escaped(m) ==
    IF Len(m) = 0 THEN <<>>
    ELSE (IF Head(m) = "'" THEN <<"'", "\"", "'", "\"", "'">> ELSE <<Head(m)>>)
             \o Escaped(Tail(m))

Quoted(m) == <<"'">> \o Escaped(m) \o <<"'">>

\* C22: when a message is given with -m to tag, switch with create-branch,
\* rmbranch or mvbranch, the command issued ends with ' -m ' and the message
\* quoted as one shell word, every single quote of the message rendered as
\* '"'"'.
C22_Quoted ==
    TakesMessage =>
        EndsWith(Commands[1], <<" ", "-m", " ">> \o Quoted(Opts.message))

\* (begin, end) of a merge that completes: the normalized token, or the
\* branch points of C17
MergeRange ==
    IF MergeRev # ALL THEN revs(MergeRev).value
    ELSE LET own == IF Len(LogQueries) = 2 THEN LastLogReply ELSE SourceLog IN
         << IntV(IF MergeName = trunk THEN Oldest(own) ELSE Oldest(SourceLog)),
            IntV(Newest(SourceLog)) >>

\* the command a merge builds, by its flags
BuiltCmd(begin, end, src) ==
    IF Opts.diff THEN Svn(<< <<"diff">>, <<"-r">>, Rng(begin, end), src >>)
    ELSE Svn(<< <<"merge">> >>
               \o (IF Opts.reintegrate THEN << <<"--reintegrate">> >>
                   ELSE << <<"-r">>, Rng(begin, end) >>)
               \o (IF Opts.accept # None THEN << <<"--accept">>, Opts.accept >>
                   ELSE <<>>)
               \o << src, MergePath >>)

\* C23: the command of a merge is 'svn diff -r begin:end <source URL>' with
\* diff-only, and no merge command is executed then; otherwise it is
\* 'svn merge', then '--reintegrate' with reintegrate and '-r begin:end'
\* without, then '--accept <strategy>' when one is given, then the source
\* URL and the path; the log query is executed before it in every case, and
\* is the only command under dry-run.
C23_MergeFlags ==
    (IsMerge /\ ret.kind = "return") =>
        LET r == MergeRange
            src == MergeSource.value
        IN  Commands = << MergeLog(r[1], r[2], src) >>
                           \o (IF Opts.dry_run THEN <<>>
                               ELSE << BuiltCmd(r[1], r[2], src) >>)

C23_Witness ==
    /\ IsMerge
    /\ Opts.reintegrate /\ Opts.accept # None /\ ~Opts.diff /\ ~Opts.dry_run
    /\ ~Opts.tag
    /\ Args = << <<"7">>, <<"foo">> >>
    /\ call.args[3] = InfoOld(UrlOf(<<"trunk">>))
    /\ Commands =
        << <<"svn", " ", "log", " ", "-r", " ", "7", ":", "7", " ">>
               \o UrlOf(<<"branches", "foo">>),
           <<"svn", " ", "merge", " ", "--reintegrate", " ", "--accept", " ",
             "postpone", " ">> \o UrlOf(<<"branches", "foo">>) \o <<" ", ".">> >>

C23_WitnessDiff ==
    /\ IsMerge
    /\ Opts.diff /\ Opts.reintegrate /\ ~Opts.dry_run
    /\ Len(Commands) = 2
    /\ SubSeq(Commands[2], 1, 3) = <<"svn", " ", "diff">>

---------------------------------------------------------------------------
(* Claims about listbranches and listtags, checked under SpecList.         *)

IsList == call.fn \in {"listbranches", "listtags"}

\* the working-copy URL and the svn ls output of the call
ListSegs == split(urlofinfo(call.args[2]).value, "/")

ListLines == call.args[3]

\* the URL given to svn ls
Listed == SubSeq(ran[2].cmd, 5, Len(ran[2].cmd))

PluralPivots == {trunk, <<"branches">>, <<"tags">>}

\* C24: list mode returns, in listing order, exactly the lines of the
\* listing that end with '/', without that '/'; the URL listed is the
\* working-copy URL cut at its rightmost trunk or marker segment, that
\* segment replaced by 'branches' (for trunk, branches, tags) or 'branch'
\* (for branch, tag) when listing branches, by 'tags' or 'tag' when listing
\* tags.
C24_ListMode ==
    IsList =>
        LET segs == ListSegs
            found == {i \in 1..Len(segs) : segs[i] \in Pivotal}
            kept == SelectSeq(ListLines,
                              LAMBDA l : Len(l) > 0 /\ l[Len(l)] = "/")
        IN  /\ ret = Return([i \in 1..Len(kept) |->
                                SubSeq(kept[i], 1, Len(kept[i]) - 1)])
            /\ found # {} =>
                 LET i == CHOOSE k \in found : \A j \in found : j <= k
                     plural == segs[i] \in PluralPivots
                     word == IF IsCmd("listbranches")
                             THEN (IF plural THEN "branches" ELSE "branch")
                             ELSE (IF plural THEN "tags" ELSE "tag")
                 IN  Listed = join(SubSeq(segs, 1, i - 1) \o << <<word>> >>, "/")

C24_Witness ==
    /\ IsCmd("listbranches")
    /\ urlofinfo(call.args[2]).value = UrlOf(<<"branches", "old", "tag", "sub">>)
    /\ ListLines = << <<"foo", "/">>, <<"README.txt">>, <<"bar", "/">> >>
    /\ ret = Return(<< <<"foo">>, <<"bar">> >>)
    /\ Listed = UrlOf(<<"branches", "old", "branch">>)

---------------------------------------------------------------------------
(* Claims about usage failures, checked under SpecCmd.                     *)

\* the fewest and the most positional arguments of the sub-commands that
\* count them
MinArgs ==
    [ezmerge |-> 1, ezrevert |-> 1, ezswitch |-> 0, eztag |-> 1,
     ezbranch |-> 0, rmbranch |-> 1, mvbranch |-> 2]

MaxArgs ==
    [ezmerge |-> 3, ezrevert |-> 2, ezswitch |-> 2, eztag |-> 2,
     ezbranch |-> 2, rmbranch |-> 1, mvbranch |-> 2]

Counts == call.fn \in DOMAIN MaxArgs

\* the sub-command is in list mode
ListMode ==
    \/ "list_branches" \in DOMAIN Opts /\ Opts.list_branches
    \/ "list_tags" \in DOMAIN Opts /\ Opts.list_tags

TooFew == Counts /\ ~ListMode /\ Len(Args) < MinArgs[call.fn]

TooMany == Counts /\ Len(Args) > MaxArgs[call.fn]

\* the dispatcher is given a name that is no sub-command
UnknownName ==
    /\ IsCmd("eazysvn")
    /\ Len(call.args[1]) >= 2
    /\ call.args[1][2] \notin COMMANDS \cup {<<"-h">>, <<"--help">>}

\* exit with a non-zero status before any query or command
ExitsAtOnce == Failed("SystemExit") /\ ran = <<>>

\* C25 as stated: too few positional arguments for merge, revert, tag,
\* rmbranch and mvbranch, too many for merge, revert, switch, tag,
\* branchurl, rmbranch and mvbranch, and an unknown sub-command name, each
\* end the process with a non-zero exit before any query or command.
C25_AsStated ==
    (TooFew \/ TooMany \/ UnknownName) => ExitsAtOnce

\* C25: too few positional arguments for merge, revert, tag, rmbranch and
\* mvbranch outside list mode, too many for revert, switch, tag, branchurl,
\* rmbranch and mvbranch, too many for merge outside list mode, and an
\* unknown sub-command name, each end the process with a non-zero exit
\* before any query or command; merge in list mode does not count its
\* arguments.
C25_UsageFailures ==
    /\ (TooFew \/ UnknownName) => ExitsAtOnce
    /\ (TooMany /\ ~(IsCmd("ezmerge") /\ ListMode)) => ExitsAtOnce
    /\ (TooMany /\ IsCmd("ezmerge") /\ ListMode) => ~Failed("SystemExit")

C25_Witness ==
    /\ IsCmd("eazysvn")
    /\ call.args[1] = <<wc, <<"blargh">>, <<"7">>, <<"foo">> >>
    /\ ret = UnknownCommand(<<"blargh">>)
    /\ ran = <<>>

C25_WitnessTooMany ==
    /\ IsCmd("rmbranch")
    /\ Len(Args) = 2
    /\ ret = UsageError("too many arguments")
    /\ ran = <<>>

\* the container the claim names for a pivot segment ch
Container(ch) ==
    IF ch \in {<<"tag">>, <<"tags">>} THEN <<"branches">>
    ELSE IF ch \in {<<"branch">>, <<"branches">>} THEN ch
    ELSE <<"branches">>

\* what stands in place of the pivot ch for the target b: the target
\* verbatim when it has a '/', the container and the target otherwise
InPlace(ch, b) ==
    IF \E i \in 1..Len(b) : b[i] = "/" THEN split(b, "/")
    ELSE <<Container(ch), b>>

\* segs from position i on, every pivot replaced for the target b
RECURSIVE Replaced(_, _, _)
Replaced(segs, i, b) ==
    IF i > Len(segs) THEN <<>>
    ELSE IF segs[i] \in Pivotal
         THEN InPlace(segs[i], b) \o Replaced(segs, PivotEnd(segs, i) + 1, b)
         ELSE <<segs[i]>> \o Replaced(segs, i + 1, b)

\* C26: when the target is not 'trunk', determinebranch puts in place of a
\* pivot: the target verbatim, with no container, when the target has a
\* '/'; otherwise 'branches' for a 'tag' or 'tags' pivot, the marker as
\* found for a 'branch' or 'branches' pivot, and 'branches' for a 'trunk'
\* pivot, each followed by the target name.
C26_Container ==
    (IsResolve /\ ret.kind = "return" /\ Target # trunk) =>
        split(ret.value, "/") = Replaced(WcSegs, 1, Target)

C26_Witness ==
    /\ IsResolve
    /\ Target = <<"foo">>
    /\ WcUrl = UrlOf(<<"sub", "tag", "old", "sub">>)
    /\ ret = Return(UrlOf(<<"sub", "branches", "foo", "sub">>))

C26_WitnessSingular ==
    /\ IsResolve
    /\ Target = <<"foo">>
    /\ WcUrl = UrlOf(<<"branch", "old", "sub">>)
    /\ ret = Return(UrlOf(<<"branch", "foo", "sub">>))

C26_WitnessVerbatim ==
    /\ IsResolve
    /\ Target = <<"tag", "/", "foo">>
    /\ WcUrl = UrlOf(<<"sub", "trunk", "sub">>)
    /\ ret = Return(UrlOf(<<"sub", "tag", "foo", "sub">>))

\* C27 as stated: determinebranch is idempotent: for every URL U and every
\* target b, with or without '/', on which it succeeds, resolving b against
\* determinebranch(b, U) returns that same URL.
C27_AsStated ==
    (IsResolve /\ ret.kind = "return") => rewrite(Target, ret.value) = ret

\* a target the second resolution leaves alone: one without '/', one of the
\* form <marker>/<name>, or one none of whose segments is trunk or a marker
Settled(b) ==
    \/ \A i \in 1..Len(b) : b[i] # "/"
    \/ MarkerSlashName(b)
    \/ \A i \in 1..Len(split(b, "/")) : split(b, "/")[i] \notin Pivotal

\* C27 amended: for every URL U and every target b on which determinebranch
\* succeeds, b having no '/', or being <marker>/<name>, or having no trunk
\* or marker among its segments, resolving b against determinebranch(b, U)
\* returns that same URL.
C27_Idempotent ==
    (IsResolve /\ ret.kind = "return" /\ Settled(Target)) =>
        rewrite(Target, ret.value) = ret

C27_Witness ==
    /\ IsResolve
    /\ Target = <<"tag", "/", "foo">>
    /\ WcUrl = UrlOf(<<"sub", "trunk", "sub">>)
    /\ ret = Return(UrlOf(<<"sub", "tag", "foo", "sub">>))
    /\ rewrite(Target, ret.value) = ret

---------------------------------------------------------------------------
(* Claims relating listbranches to determinebranch, checked under SpecList. *)

\* the target names that are not 'trunk' and have no '/'
PlainNames ==
    {b \in BranchNames : b # trunk /\ \A i \in 1..Len(b) : b[i] # "/"}

\* the positions of the trunk and marker segments of the listed URL
ListPivots == {i \in 1..Len(ListSegs) : ListSegs[i] \in Pivotal}

\* C28: list mode and branch resolution agree on the container: for every
\* working-copy URL with exactly one trunk or marker segment and every
\* target name that is not 'trunk' and has no '/', the URL listbranches
\* lists is the prefix of determinebranch(name, URL) that ends just before
\* the name segment.
C28_SameContainer ==
    (IsCmd("listbranches") /\ Cardinality(ListPivots) = 1) =>
        \A b \in PlainNames :
            LET r == determinebranch(b, call.args[2])
                i == CHOOSE k \in ListPivots : TRUE
            IN  r.kind = "return" =>
                    LET out == split(r.value, "/") IN
                    /\ Len(out) > i
                    /\ out[i + 1] = b
                    /\ Listed = join(SubSeq(out, 1, i), "/")

\* the agreement where it holds: every pivot but a singular 'tag'
C28_AgreeButTag ==
    (IsCmd("listbranches") /\ Cardinality(ListPivots) = 1
        /\ \A i \in ListPivots : ListSegs[i] # <<"tag">>) =>
        \A b \in PlainNames :
            LET r == determinebranch(b, call.args[2])
                i == CHOOSE k \in ListPivots : TRUE
            IN  r.kind = "return" =>
                    LET out == split(r.value, "/") IN
                    /\ Len(out) > i
                    /\ out[i + 1] = b
                    /\ Listed = join(SubSeq(out, 1, i), "/")

---------------------------------------------------------------------------
(* Claims about the direction of a revert, checked under SpecCmd.          *)

\* a token without 'HEAD': a number, a-b or a:b, after an optional 'r'
NumericToken(t) ==
    LET s == IF Len(t) > 0 /\ t[1] = "r" THEN Tail(t) ELSE t IN
    \/ IsNumber(s)
    \/ IsRange(s, "-") /\ Right(s, "-") # HEAD
    \/ IsRange(s, ":") /\ Right(s, ":") # HEAD

\* a colon range a:b that does not run forward
BackwardColon(t) ==
    LET s == IF Len(t) > 0 /\ t[1] = "r" THEN Tail(t) ELSE t IN
    /\ IsRange(s, ":")
    /\ Right(s, ":") # HEAD
    /\ int(Left(s, ":")) >= int(Right(s, ":"))

\* the number a decimal text stands for
Number(s) == IF Len(s) > 0 /\ s[1] = "-" THEN 0 - int(Tail(s)) ELSE int(s)

\* the two ends X and Y of the range of the merge command executed
MergedRange == split(split(Commands[2], " ")[4], ":")

RangeX == Number(MergedRange[1])

RangeY == Number(MergedRange[2])

\* a revert of a numeric token that runs its merge command
RevertsNumeric ==
    RevertsRange /\ NumericToken(Args[1]) /\ ~Opts.dry_run

\* C29 as stated: revert always applies changes in reverse: for every
\* numeric token it accepts (bare number, hyphen range, colon range) the
\* range X:Y of its merge command has X strictly greater than Y.
C29_AsStated ==
    RevertsNumeric => RangeX > RangeY

\* C29 amended: for every bare number, hyphen range and colon range a:b
\* with a < b that revert accepts, the range X:Y of its merge command has
\* X strictly greater than Y; for a colon range a:b with a >= b the command
\* gets the range b:a, X no greater than Y.
C29_Reverse ==
    RevertsNumeric =>
        IF BackwardColon(Args[1]) THEN RangeX <= RangeY
        ELSE RangeX > RangeY

C29_Witness ==
    /\ IsCmd("ezrevert")
    /\ Args = << <<"3", ":", "7">> >>
    /\ ~Opts.dry_run
    /\ Commands[2] = <<"svn", " ", "merge", " ", "-r", " ", "7", ":", "3", " ", ".">>
    /\ RangeX = 7
    /\ RangeY = 3

C29_WitnessBare ==
    /\ IsCmd("ezrevert")
    /\ Args = << <<"0">>, wc >>
    /\ ~Opts.dry_run
    /\ RangeX = 0
    /\ RangeY = -1

---------------------------------------------------------------------------
(* Claims about a history without entries, checked under SpecCmd.          *)

\* a well-formed log with no entry
ZeroEntries(text) ==
    Len(text) > 0 /\ WellFormed(text) /\ RevisionsIn(text) = <<>>

\* C30: when the history query returns a well-formed log with zero entries,
\* branchpoints returns no branch point and does not take the 'Could not
\* parse svn log output' exit: it fails with an uncaught error, so merge
\* ALL, branchdiff and branchpoint end with that error right after the
\* query, before any command is executed.
C30_EmptyLog ==
    (call.fn \in UsesHistory /\ Len(LogQueries) > 0
        /\ ZeroEntries(LastLogReply)) =>
            /\ ret.kind = "raise"
            /\ ~Failed("SystemExit")
            /\ Failed("IndexError")
            /\ ran[Len(ran)] = LogQueries[Len(LogQueries)]
            /\ Commands = <<>>

C30_Witness ==
    /\ IsCmd("ezmerge")
    /\ Args = <<trunk>>
    /\ SourceLog = LogText(<<9, 4>>)
    /\ OwnLog = LogText(<<>>)
    /\ Len(LogQueries) = 2
    /\ Failed("IndexError")
    /\ Commands = <<>>

C30_WitnessDiff ==
    /\ IsCmd("branchdiff")
    /\ SourceLog = LogText(<<>>)
    /\ Len(LogQueries) = 1
    /\ Failed("IndexError")
    /\ ran[Len(ran)] = LogQueries[1]

C30_WitnessPoint ==
    /\ IsCmd("branchpoint")
    /\ SourceLog = LogText(<<>>)
    /\ Len(LogQueries) = 1
    /\ Failed("IndexError")
    /\ Commands = <<>>

====
